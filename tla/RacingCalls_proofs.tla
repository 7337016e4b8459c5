------------------------- MODULE RacingCalls_proofs -------------------------
(***************************************************************************)
(* Calls whose reads a later write does not repeat, for any number of them *)
(* that race in between: how far off the result can be.                    *)
(*                                                                         *)
(* One group per learner is not inductive: a call that has looked and not  *)
(* inserted yet carries a row that is as good as there.  A learner whom no *)
(* two calls ever contended for has all the rows that are there or under   *)
(* way in one group (AimInv).                                              *)
(*                                                                         *)
(* A publication goes on from what was live when it looked, unless another *)
(* one crossed it (UncrossedInv); a page without a version, or one that    *)
(* does not know of a published version, waits for the second commit of a  *)
(* call that is under way or has died (WholeInv).                          *)
(*                                                                         *)
(* Invoices are numbered 1, 2, 3 ... because a count that is used is never *)
(* above the number of rows (CountInv), and one that is below gives a      *)
(* number that is taken.  A call that has passed the check of a transition *)
(* still finds its subscription out of canceled, unless it was overtaken   *)
(* by a cancel (CheckedInv).                                               *)
(*                                                                         *)
(* On the silo tier the status of a video between its commit and that of   *)
(* the event is safe as long as no other pipeline runs (AloneInv): it is   *)
(* then the one about to be announced (OutcomeInv).                        *)
(*                                                                         *)
(* The chain of an audit log whose appends did not overlap is as verify    *)
(* wants it for every row that is whole (ChainInv), and whatever was done  *)
(* to the others can be read off them (DamageInv): an altered row no       *)
(* longer has its hash, and a row whose predecessor is gone carries a hash *)
(* over an id that no row has, nor ever will.                              *)
(***************************************************************************)
EXTENDS AssignmentGroups, PageVersions, Billing, VideoPipeline, AuditChain,
  FiniteSetTheorems, SequenceTheorems, WellFoundedInduction, TLAPS

(* The groups of an assignment. *)

\* The rows of a learner that are there, and those that are under way.
Aim(u) == GroupsOf(u) \union Joining(u)

\* All of an uncontended learner's rows, there or under way, are of one group.
AimInv == \A u \in Students \ contending : \A g, h \in Aim(u) : g = h

\* A row is of a group that is there.
CascadeInv == \A m \in member : group[m[1]] = "there"

GroupIInv == GroupTypeOK /\ AimInv /\ CascadeInv

-----------------------------------------------------------------------------
LEMMA GroupInitInv == GroupInit => GroupIInv
  BY DEF GroupInit, GroupIInv, GroupTypeOK, AimInv, CascadeInv, Aim, GroupsOf, Joining

LEMMA GroupNextType ==
  ASSUME GroupTypeOK, [GroupNext]_groupVars
  PROVE  GroupTypeOK'
<1> USE DEF GroupTypeOK
<1>1. ASSUME NEW g \in Groups, CreateGroup(g) PROVE GroupTypeOK'
  BY <1>1 DEF CreateGroup
<1>2. ASSUME NEW g \in Groups, DeleteGroup(g) PROVE GroupTypeOK'
  BY <1>2 DEF DeleteGroup
<1>3. ASSUME NEW m \in member, RemoveMember(m) PROVE GroupTypeOK'
  BY <1>3 DEF RemoveMember
<1>4. ASSUME NEW c \in GroupCalls, LookForSibling(c) PROVE GroupTypeOK'
  BY <1>4 DEF LookForSibling
<1>5. ASSUME NEW c \in GroupCalls, InsertMember(c) PROVE GroupTypeOK'
  BY <1>5 DEF InsertMember
<1>6. ASSUME NEW c \in GroupCalls, JoinFails(c) PROVE GroupTypeOK'
  BY <1>6 DEF JoinFails
<1>7. CASE UNCHANGED groupVars
  BY <1>7 DEF groupVars
<1>8. QED
  BY <1>1, <1>2, <1>3, <1>4, <1>5, <1>6, <1>7 DEF GroupNext

\* A step that only takes rows away takes aims away.
LEMMA FewerAims ==
  ASSUME GroupTypeOK, AimInv, member' \subseteq member, UNCHANGED contending,
         \A c \in GroupCalls : joining'[c] \in {joining[c], NoRow}
  PROVE  AimInv'
<1>1. ASSUME NEW u \in Students PROVE Aim(u)' \subseteq Aim(u)
  <2>1. GroupsOf(u)' \subseteq GroupsOf(u)
    BY DEF GroupsOf
  <2>2. Joining(u)' \subseteq Joining(u)
    BY DEF Joining
  <2>3. QED
    BY <2>1, <2>2 DEF Aim
<1>2. QED
  BY <1>1 DEF AimInv

LEMMA NextAim ==
  ASSUME GroupTypeOK, AimInv, [GroupNext]_groupVars
  PROVE  AimInv'
<1>1. ASSUME NEW g \in Groups, CreateGroup(g) PROVE AimInv'
  BY <1>1, FewerAims DEF CreateGroup
<1>2. ASSUME NEW g \in Groups, DeleteGroup(g) PROVE AimInv'
  BY <1>2, FewerAims DEF DeleteGroup
<1>3. ASSUME NEW m \in member, RemoveMember(m) PROVE AimInv'
  BY <1>3, FewerAims DEF RemoveMember
<1>4. ASSUME NEW c \in GroupCalls, LookForSibling(c) PROVE AimInv'
  <2>1. PICK g \in Groups, u \in Students :
          /\ ~InSibling(g, u)
          /\ joining' = [joining EXCEPT ![c] = <<g, u>>]
          /\ contending' = IF Joining(u) \ {g} = {} THEN contending ELSE contending \union {u}
    BY <1>4 DEF LookForSibling
  <2>2. ASSUME NEW v \in Students \ contending', v # u PROVE Aim(v)' \subseteq Aim(v)
    <3>1. GroupsOf(v)' = GroupsOf(v)
      BY <1>4 DEF GroupsOf, LookForSibling
    <3>2. Joining(v)' \subseteq Joining(v)
      BY <2>1, <2>2 DEF Joining, GroupTypeOK
    <3>3. QED
      BY <3>1, <3>2 DEF Aim
  <2>3. ASSUME u \notin contending' PROVE Aim(u)' \subseteq {g}
    <3>1. GroupsOf(u)' \subseteq {g}
      BY <1>4, <2>1 DEF GroupsOf, LookForSibling, InSibling
    <3>2. Joining(u) \subseteq {g}
      BY <2>1, <2>3
    <3>3. Joining(u)' \subseteq Joining(u) \union {g}
      BY <2>1 DEF Joining, GroupTypeOK
    <3>4. QED
      BY <3>1, <3>2, <3>3 DEF Aim
  <2>4. contending \subseteq contending'
    BY <2>1
  <2>5. QED
    BY <2>2, <2>3, <2>4 DEF AimInv
<1>5. ASSUME NEW c \in GroupCalls, InsertMember(c) PROVE AimInv'
  <2>1. ASSUME NEW u \in Students PROVE Aim(u)' \subseteq Aim(u)
    <3>1. GroupsOf(u)' \subseteq GroupsOf(u) \union Joining(u)
      BY <1>5 DEF InsertMember, GroupsOf, Joining, GroupTypeOK
    <3>2. Joining(u)' \subseteq Joining(u)
      BY <1>5 DEF InsertMember, Joining, GroupTypeOK
    <3>3. QED
      BY <3>1, <3>2 DEF Aim
  <2>2. UNCHANGED contending
    BY <1>5 DEF InsertMember
  <2>3. QED
    BY <2>1, <2>2 DEF AimInv
<1>6. ASSUME NEW c \in GroupCalls, JoinFails(c) PROVE AimInv'
  BY <1>6, FewerAims DEF JoinFails, GroupTypeOK
<1>7. CASE UNCHANGED groupVars
  BY <1>7, FewerAims DEF groupVars
<1>8. QED
  BY <1>1, <1>2, <1>3, <1>4, <1>5, <1>6, <1>7 DEF GroupNext

LEMMA NextCascade ==
  ASSUME GroupTypeOK, CascadeInv, [GroupNext]_groupVars
  PROVE  CascadeInv'
<1> USE DEF CascadeInv, GroupTypeOK
<1>1. ASSUME NEW g \in Groups, CreateGroup(g) PROVE CascadeInv'
  BY <1>1 DEF CreateGroup
<1>2. ASSUME NEW g \in Groups, DeleteGroup(g) PROVE CascadeInv'
  BY <1>2 DEF DeleteGroup
<1>3. ASSUME NEW m \in member, RemoveMember(m) PROVE CascadeInv'
  BY <1>3 DEF RemoveMember
<1>4. ASSUME NEW c \in GroupCalls, LookForSibling(c) PROVE CascadeInv'
  BY <1>4 DEF LookForSibling
<1>5. ASSUME NEW c \in GroupCalls, InsertMember(c) PROVE CascadeInv'
  BY <1>5 DEF InsertMember
<1>6. ASSUME NEW c \in GroupCalls, JoinFails(c) PROVE CascadeInv'
  BY <1>6 DEF JoinFails
<1>7. CASE UNCHANGED groupVars
  BY <1>7 DEF groupVars
<1>8. QED
  BY <1>1, <1>2, <1>3, <1>4, <1>5, <1>6, <1>7 DEF GroupNext

\* The inductive invariant: an uncontended learner's rows, there or under way in
\* addMember, are of one group, and every row is of a group that is there.
THEOREM GroupInvariant == GroupSpec => []GroupIInv
<1>1. GroupIInv /\ [GroupNext]_groupVars => GroupIInv'
  BY GroupNextType, NextAim, NextCascade DEF GroupIInv
<1>2. QED
  BY GroupInitInv, <1>1, PTL DEF GroupSpec

\* A learner is in one group of the assignment and in none that was deleted,
\* unless two calls of addMember had both looked before either inserted.
THEOREM OneGroupForEach == GroupSpec => []OneGroupEach
<1>1. GroupIInv => OneGroupEach
  <2>1. SUFFICES ASSUME GroupIInv, NEW u \in Students \ contending
                 PROVE  Cardinality(GroupsOf(u)) <= 1
    BY DEF OneGroupEach, GroupIInv, CascadeInv
  <2>2. \A g, h \in GroupsOf(u) : g = h
    BY <2>1 DEF GroupIInv, AimInv, Aim
  <2>3. CASE GroupsOf(u) = {}
    BY <2>3, FS_EmptySet
  <2>4. CASE GroupsOf(u) # {}
    <3>1. PICK g \in Groups : GroupsOf(u) = {g}
      BY <2>2, <2>4 DEF GroupsOf
    <3>2. Cardinality({g}) = 1
      BY FS_Singleton
    <3>3. QED
      BY <3>1, <3>2
  <2>5. QED
    BY <2>3, <2>4
<1>2. QED
  BY GroupInvariant, <1>1, PTL
-----------------------------------------------------------------------------
(* The versions of a page. *)

\* Types.
PageType ==
  /\ page \in BOOLEAN /\ pageTorn \in BOOLEAN
  /\ version \in Seq({"draft", "published"})
  /\ live \in 0..Len(version)
  /\ pagePc \in [PageCalls -> {"idle", "firstVersion", "append", "promote", "point", "findDraft"}]
  /\ pick \in [PageCalls -> Nat]
  /\ chosen \in [PageCalls -> BOOLEAN] /\ crossed \in [PageCalls -> BOOLEAN]
  /\ repeated \in [PageCalls -> BOOLEAN]

\* A call works on a page that is there and publishes a version that is there.
TargetIsThere ==
  /\ ~page => version = << >>
  /\ \A c \in PageCalls :
       /\ pagePc[c] # "idle" => page
       /\ pagePc[c] \in {"promote", "point"} => pick[c] \in 1..Len(version)

\* What a call read first is still so, unless a publication crossed it.
UncrossedInv == \A c \in PageCalls : ~crossed[c] =>
  /\ pagePc[c] = "findDraft" => pick[c] = live
  /\ pagePc[c] \in {"promote", "point"} /\ ~chosen[c] /\ ~repeated[c] => live <= pick[c]

\* Only the silo tier has a page without a version, or a published version that
\* the page does not know of: between the two commits of a call.
Awaited(step) == pageTorn \/ \E d \in PageCalls : pagePc[d] = step
WholeInv ==
  /\ page /\ version = << >> => Awaited("firstVersion")
  /\ (\E v \in 1..Len(version) : version[v] = "published") /\ live = 0 => Awaited("point")

PageInv == PageType /\ TargetIsThere /\ UncrossedInv /\ WholeInv

-----------------------------------------------------------------------------
\* The versions are numbered without a gap, so there is a latest draft if any.
LEMMA LatestIsLast ==
  ASSUME PageType, Drafts # {}
  PROVE  LatestDraft \in Drafts /\ \A d \in Drafts : d <= LatestDraft
<1> DEFINE T == {n \in Nat : Len(version) - n \in Drafts}
           R == OpToRel(<, Nat)
<1>1. Drafts \subseteq 1..Len(version) /\ Len(version) \in Nat
  BY DEF Drafts, PageType
<1>2. T \subseteq Nat /\ T # {}
  <2>1. PICK d \in Drafts : TRUE
    OBVIOUS
  <2>2. Len(version) - d \in Nat /\ Len(version) - (Len(version) - d) = d
    BY <1>1
  <2>3. QED
    BY <2>1, <2>2
<1>3. IsWellFoundedOn(R, Nat)
  BY NatLessThanWellFounded
<1>4. \E x \in T : \A y \in T : ~(<<y, x>> \in R)
  <2> HIDE DEF T, R
  <2>1. QED
    BY <1>2, <1>3, WFMin
<1>5. PICK x \in T : \A y \in T : ~(<<y, x>> \in R)
  BY <1>4
<1>6. \A y \in T : ~(y < x)
  BY <1>2, <1>5 DEF OpToRel
<1>7. ASSUME NEW d \in Drafts PROVE d <= Len(version) - x
  <2>1. Len(version) - d \in T
    BY <1>1
  <2>2. d \in Nat /\ Len(version) \in Nat /\ x \in Nat
    <3>1. x \in Nat
      <4> HIDE DEF T
      <4>1. QED
        BY <1>2, <1>5
    <3>2. QED
      BY <1>1, <3>1
  <2>3. ~(Len(version) - d < x)
    <3> HIDE DEF T
    <3>1. QED
      BY <1>6, <2>1
  <2>4. QED
    BY <2>2, <2>3
<1>8. \E v \in Drafts : \A d \in Drafts : d <= v
  BY <1>5, <1>7
<1>9. QED
  BY <1>8 DEF LatestDraft

LEMMA PageInitInv == PageInit => PageInv
<1> SUFFICES ASSUME PageInit PROVE PageInv
  OBVIOUS
<1>1. version = << >> /\ Len(version) = 0 /\ live = 0
  BY DEF PageInit
<1>2. PageType
  <2>1. version \in Seq({"draft", "published"}) /\ live \in 0..Len(version)
    BY <1>1
  <2>2. /\ page \in BOOLEAN /\ pageTorn \in BOOLEAN
        /\ pagePc \in [PageCalls -> {"idle", "firstVersion", "append", "promote", "point", "findDraft"}]
        /\ pick \in [PageCalls -> Nat]
    BY DEF PageInit
  <2>3. /\ chosen \in [PageCalls -> BOOLEAN] /\ crossed \in [PageCalls -> BOOLEAN]
        /\ repeated \in [PageCalls -> BOOLEAN]
    BY DEF PageInit
  <2>4. QED
    BY <2>1, <2>2, <2>3 DEF PageType
<1>3. TargetIsThere /\ UncrossedInv /\ WholeInv
  BY <1>1 DEF PageInit, TargetIsThere, UncrossedInv, WholeInv
<1>4. QED
  BY <1>2, <1>3 DEF PageInv

\* A call that ends, and what it leaves.
LEMMA PageCallEnds ==
  ASSUME PageType, NEW c \in PageCalls, EndPageCall(c)
  PROVE  /\ pagePc' \in [PageCalls -> {"idle", "firstVersion", "append", "promote", "point", "findDraft"}]
         /\ pick' \in [PageCalls -> Nat] /\ chosen' \in [PageCalls -> BOOLEAN]
         /\ repeated' \in [PageCalls -> BOOLEAN]
         /\ pagePc'[c] = "idle"
         /\ \A d \in PageCalls \ {c} : /\ pagePc'[d] = pagePc[d] /\ pick'[d] = pick[d]
                                       /\ chosen'[d] = chosen[d] /\ repeated'[d] = repeated[d]
  BY DEF PageType, EndPageCall, PageGoto

LEMMA PageNextType ==
  ASSUME PageType, TargetIsThere, [PageNext]_pageVars
  PROVE  PageType' /\ TargetIsThere'
<1> USE DEF PageType, TargetIsThere
<1>1. ASSUME NEW c \in PageCalls, CreatePage(c) PROVE PageType' /\ TargetIsThere'
  <2>1. version' \in Seq({"draft", "published"}) /\ live' \in 0..Len(version') /\ page'
    <3>1. version = << >> /\ Len(version) = 0 /\ live' = 0 /\ page'
      BY <1>1 DEF CreatePage
    <3>2. version' = <<"draft">> \/ version' = version
      BY <1>1 DEF CreatePage
    <3>3. <<"draft">> \in Seq({"draft", "published"}) /\ Len(<<"draft">>) = 1
      OBVIOUS
    <3>4. CASE version' = <<"draft">>
      BY <3>1, <3>3, <3>4
    <3>5. CASE version' = version
      BY <3>1, <3>5
    <3>6. QED
      BY <3>2, <3>4, <3>5
  <2>2. /\ pagePc' \in [PageCalls -> {"idle", "firstVersion", "append", "promote", "point", "findDraft"}]
        /\ pick' \in [PageCalls -> Nat] /\ crossed' \in [PageCalls -> BOOLEAN]
        /\ UNCHANGED <<chosen, repeated, pageTorn>>
    BY <1>1 DEF CreatePage, PageGoto, NotCrossed
  <2>3. \A d \in PageCalls : pagePc'[d] \notin {"promote", "point"}
    BY <1>1 DEF CreatePage, PageGoto
  <2>4. Len(version') \in Nat
    BY <2>1
  <2>5. QED
    BY <2>1, <2>2, <2>3, <2>4
<1>2. ASSUME NEW c \in PageCalls, ReadMax(c) \/ ReadPage(c) PROVE PageType' /\ TargetIsThere'
  <2>1. PICK n \in Nat, step \in {"append", "findDraft"} : PageGoto(c, step, n)
    <3>1. Len(version) + 1 \in Nat /\ live \in Nat
      OBVIOUS
    <3>2. QED
      BY <1>2, <3>1 DEF ReadMax, ReadPage
  <2>2. page /\ NotCrossed(c) /\ UNCHANGED <<page, version, live, chosen, repeated, pageTorn>>
    BY <1>2 DEF ReadMax, ReadPage
  <2>3. QED
    BY <2>1, <2>2 DEF PageGoto, NotCrossed
<1>3. ASSUME NEW c \in PageCalls, InsertVersion(c) PROVE PageType' /\ TargetIsThere'
  <2>1. version' \in Seq({"draft", "published"}) /\ Len(version') \in {Len(version), Len(version) + 1}
    BY <1>3 DEF InsertVersion
  <2>2. page /\ UNCHANGED <<page, live, crossed, pageTorn>>
    BY <1>3 DEF InsertVersion
  <2>3. EndPageCall(c)
    BY <1>3 DEF InsertVersion
  <2>4. live' \in 0..Len(version') /\ 1..Len(version) \subseteq 1..Len(version')
    BY <2>1, <2>2
  <2>5. PageType'
    BY <2>1, <2>2, <2>3, <2>4, PageCallEnds
  <2>6. TargetIsThere'
    BY <2>1, <2>2, <2>3, <2>4, PageCallEnds
  <2>7. QED
    BY <2>5, <2>6
<1>4. ASSUME NEW c \in PageCalls, FindTarget(c) PROVE PageType' /\ TargetIsThere'
  <2>1. PICK v \in 1..Len(version), named \in BOOLEAN :
          PageGoto(c, "promote", v) /\ chosen' = [chosen EXCEPT ![c] = named]
    <3>1. DOMAIN version = 1..Len(version)
      OBVIOUS
    <3>2. QED
      BY <1>4, <3>1 DEF FindTarget
  <2>2. (\A d \in Drafts : d < live) \in BOOLEAN
    OBVIOUS
  <2>3. repeated' \in [PageCalls -> BOOLEAN]
    BY <1>4, <2>2 DEF FindTarget
  <2>4. QED
    BY <1>4, <2>1, <2>3 DEF FindTarget, PageGoto, NotCrossed
<1>5. ASSUME NEW c \in PageCalls, Promote(c) \/ Point(c) PROVE PageType' /\ TargetIsThere'
  <2>0. pick[c] \in 1..Len(version) /\ page
    BY <1>5 DEF Promote, Point
  <2>1. version' \in Seq({"draft", "published"}) /\ Len(version') = Len(version)
    <3>1. CASE version' = version
      BY <3>1
    <3>2. CASE version' = [version EXCEPT ![pick[c]] = "published"]
      BY <2>0, <3>2
    <3>3. QED
      BY <1>5, <3>1, <3>2 DEF Promote, Point
  <2>2. live' \in {live, pick[c]} /\ UNCHANGED <<page, pageTorn>>
    BY <1>5 DEF Promote, Point
  <2>3. crossed' \in [PageCalls -> BOOLEAN]
    BY <1>5 DEF Promote, Point, Cross
  <2>4. \/ EndPageCall(c)
        \/ PageGoto(c, "point", pick[c]) /\ UNCHANGED <<chosen, repeated>>
    BY <1>5 DEF Promote, Point
  <2>5. CASE EndPageCall(c)
    <3>1. live' \in 0..Len(version')
      BY <2>0, <2>1, <2>2
    <3>2. PageType'
      BY <2>1, <2>2, <2>3, <2>5, <3>1, PageCallEnds
    <3>3. TargetIsThere'
      BY <2>0, <2>1, <2>2, <2>5, PageCallEnds
    <3>4. QED
      BY <3>2, <3>3
  <2>6. CASE PageGoto(c, "point", pick[c]) /\ UNCHANGED <<chosen, repeated>>
    BY <2>0, <2>1, <2>2, <2>3, <2>6 DEF PageGoto
  <2>7. QED
    BY <2>4, <2>5, <2>6
<1>6. ASSUME NEW c \in PageCalls, AnswerPage(c) \/ PageCallFails(c) PROVE PageType' /\ TargetIsThere'
  <2>1. EndPageCall(c) /\ UNCHANGED <<page, version, live, crossed>> /\ pageTorn' \in BOOLEAN
    BY <1>6 DEF AnswerPage, PageCallFails
  <2>2. QED
    BY <2>1, PageCallEnds
<1>7. CASE UNCHANGED pageVars
  BY <1>7 DEF pageVars, pageLocals
<1>8. QED
  BY <1>1, <1>2, <1>3, <1>4, <1>5, <1>6, <1>7 DEF PageNext

LEMMA NextUncrossed ==
  ASSUME PageType, TargetIsThere, UncrossedInv, [PageNext]_pageVars
  PROVE  UncrossedInv'
<1> USE DEF PageType
<1>1. ASSUME NEW c \in PageCalls, UNCHANGED live, UncrossedInv!(c)',
             \A d \in PageCalls \ {c} : /\ pagePc'[d] = pagePc[d] /\ pick'[d] = pick[d]
                                        /\ chosen'[d] = chosen[d] /\ repeated'[d] = repeated[d]
                                        /\ crossed'[d] = crossed[d]
      PROVE  UncrossedInv'
  BY <1>1 DEF UncrossedInv
<1>2. ASSUME NEW c \in PageCalls, CreatePage(c) \/ ReadMax(c) \/ ReadPage(c) PROVE UncrossedInv'
  BY <1>2 DEF CreatePage, ReadMax, ReadPage, PageGoto, NotCrossed, UncrossedInv
<1>3. ASSUME NEW c \in PageCalls, InsertVersion(c) \/ AnswerPage(c) \/ PageCallFails(c)
      PROVE  UncrossedInv'
  <2>1. EndPageCall(c) /\ UNCHANGED <<live, crossed>>
    BY <1>3 DEF InsertVersion, AnswerPage, PageCallFails
  <2>2. QED
    BY <1>1, <2>1, PageCallEnds
<1>4. ASSUME NEW c \in PageCalls, FindTarget(c) PROVE UncrossedInv'
  <2>1. PICK v \in 1..Len(version), named \in BOOLEAN :
          /\ named \/ v = LatestDraft
          /\ PageGoto(c, "promote", v)
          /\ chosen' = [chosen EXCEPT ![c] = named]
    <3>1. DOMAIN version = 1..Len(version)
      OBVIOUS
    <3>2. QED
      BY <1>4, <3>1 DEF FindTarget
  <2>2. repeated' = [repeated EXCEPT ![c] = \A d \in Drafts : d < live] /\ NotCrossed(c)
        /\ UNCHANGED live
    BY <1>4 DEF FindTarget
  <2>3. ASSUME ~named, ~(\A d \in Drafts : d < live) PROVE live <= v
    <3>1. PICK d \in Drafts : ~(d < live)
      BY <2>3
    <3>2. d \in Nat /\ d <= v
      BY <2>1, <2>3, <3>1, LatestIsLast DEF Drafts
    <3>3. QED
      BY <3>1, <3>2
  <2>4. repeated'[c] <=> (\A d \in Drafts : d < live)
    BY <2>2
  <2>5. pagePc'[c] = "promote" /\ pick'[c] = v /\ (chosen'[c] <=> named)
    BY <2>1 DEF PageGoto
  <2>6. UncrossedInv!(c)'
    BY <2>2, <2>3, <2>4, <2>5
  <2>7. QED
    BY <1>1, <2>1, <2>2, <2>6 DEF PageGoto, NotCrossed
<1>5. ASSUME NEW c \in PageCalls, Promote(c) \/ Point(c) PROVE UncrossedInv'
  <2>1. CASE EndPageCall(c) /\ Cross(c)
    <3>1. \A d \in PageCalls \ {c} : ~crossed'[d] => pagePc[d] = "idle"
      BY <2>1 DEF Cross
    <3>2. pagePc'[c] = "idle" /\ \A d \in PageCalls \ {c} : pagePc'[d] = pagePc[d]
      BY <2>1, PageCallEnds
    <3>3. QED
      BY <3>1, <3>2 DEF UncrossedInv
  <2>2. CASE /\ pagePc[c] = "promote" /\ PageGoto(c, "point", pick[c])
             /\ UNCHANGED <<live, chosen, repeated, crossed>>
    BY <2>2 DEF PageGoto, UncrossedInv
  <2>3. QED
    BY <1>5, <2>1, <2>2 DEF Promote, Point
<1>6. CASE UNCHANGED pageVars
  BY <1>6 DEF pageVars, pageLocals, UncrossedInv
<1>7. QED
  BY <1>2, <1>3, <1>4, <1>5, <1>6 DEF PageNext

LEMMA NextWhole ==
  ASSUME PageType, TargetIsThere, WholeInv, [PageNext]_pageVars
  PROVE  WholeInv'
<1> USE DEF PageType, Awaited
<1> DEFINE Published == \E v \in 1..Len(version) : version[v] = "published"
\* A step of c that neither ends c's pair of commits nor needs it.
<1>1. ASSUME NEW c \in PageCalls, NEW step \in {"firstVersion", "point"}, pagePc[c] # step,
             \A d \in PageCalls \ {c} : pagePc'[d] = pagePc[d], pageTorn => pageTorn'
      PROVE  Awaited(step) => Awaited(step)'
  BY <1>1
<1>2. ASSUME NEW c \in PageCalls, CreatePage(c) PROVE WholeInv'
  <2>1. version = << >> /\ ~page
    BY <1>2 DEF CreatePage, TargetIsThere
  <2>2. CASE version' = <<"draft">>
    <3>1. Len(version') = 1 /\ version'[1] = "draft"
      BY <2>2
    <3>2. QED
      BY <2>2, <3>1 DEF WholeInv
  <2>3. CASE PageGoto(c, "firstVersion", 1) /\ UNCHANGED version
    <3>1. Len(version') = 0 /\ pagePc'[c] = "firstVersion"
      BY <2>1, <2>3 DEF PageGoto
    <3>2. QED
      BY <3>1 DEF WholeInv
  <2>4. QED
    BY <1>2, <2>2, <2>3 DEF CreatePage
<1>3. ASSUME NEW c \in PageCalls, ReadMax(c) \/ ReadPage(c) \/ FindTarget(c) \/ AnswerPage(c)
      PROVE  WholeInv'
  <2>1. pagePc[c] \notin {"firstVersion", "point"} /\ UNCHANGED <<page, version, live, pageTorn>>
    BY <1>3 DEF ReadMax, ReadPage, FindTarget, AnswerPage
  <2>2. \A d \in PageCalls \ {c} : pagePc'[d] = pagePc[d]
    BY <1>3 DEF ReadMax, ReadPage, FindTarget, AnswerPage, EndPageCall, PageGoto
  <2>3. QED
    BY <1>1, <2>1, <2>2 DEF WholeInv
<1>4. ASSUME NEW c \in PageCalls, InsertVersion(c) PROVE WholeInv'
  <2>1. pagePc[c] # "point" /\ page /\ UNCHANGED <<page, live, pageTorn>>
    BY <1>4 DEF InsertVersion, TargetIsThere
  <2>2. \A d \in PageCalls \ {c} : pagePc'[d] = pagePc[d]
    BY <1>4 DEF InsertVersion, EndPageCall, PageGoto
  <2>3. CASE version' = Append(version, "draft")
    <3>1. /\ version' # << >> /\ Len(version') = Len(version) + 1
          /\ version'[Len(version) + 1] = "draft"
          /\ \A v \in 1..Len(version) : version'[v] = version[v]
      <4>1. version \in Seq({"draft", "published"}) /\ Len(version) \in Nat
        OBVIOUS
      <4>2. Len(version') = Len(version) + 1 /\ version'[Len(version) + 1] = "draft"
        BY <2>3, <4>1
      <4>3. ASSUME NEW v \in 1..Len(version) PROVE version'[v] = version[v]
        BY <2>3, <4>1
      <4>4. version' # << >>
        BY <4>1, <4>2
      <4>5. QED
        BY <4>2, <4>3, <4>4
    <3>2. Published' => Published
      <4>1. ASSUME NEW v \in 1..Len(version'), version'[v] = "published"
            PROVE  v \in 1..Len(version) /\ version[v] = "published"
        <5>1. v # Len(version) + 1 /\ Len(version) \in Nat
          BY <3>1, <4>1
        <5>2. v \in 1..Len(version)
          BY <3>1, <5>1
        <5>3. QED
          BY <3>1, <4>1, <5>2
      <4>2. QED
        BY <4>1
    <3>3. QED
      BY <1>1, <2>1, <2>2, <3>1, <3>2 DEF WholeInv
  <2>4. CASE pick[c] \in DOMAIN version /\ version' = version
    <3>1. version # << >>
      BY <2>4
    <3>2. QED
      BY <1>1, <2>1, <2>2, <2>4, <3>1 DEF WholeInv
  <2>5. QED
    BY <1>4, <2>3, <2>4 DEF InsertVersion
<1>5. ASSUME NEW c \in PageCalls, Promote(c) PROVE WholeInv'
  <2>1. pick[c] \in 1..Len(version) /\ version # << >> /\ pagePc[c] = "promote"
    BY <1>5 DEF Promote, TargetIsThere
  <2>2. version' # << >> /\ UNCHANGED <<page, pageTorn>>
    BY <1>5, <2>1 DEF Promote
  <2>3. CASE live' = pick[c]
    BY <2>1, <2>2, <2>3 DEF WholeInv
  <2>4. CASE PageGoto(c, "point", pick[c])
    BY <2>2, <2>4 DEF WholeInv, PageGoto
  <2>5. QED
    BY <1>5, <2>3, <2>4 DEF Promote
<1>6. ASSUME NEW c \in PageCalls, Point(c) PROVE WholeInv'
  BY <1>6 DEF Point, TargetIsThere, WholeInv
<1>7. ASSUME NEW c \in PageCalls, PageCallFails(c) PROVE WholeInv'
  <2>1. \A d \in PageCalls \ {c} : pagePc'[d] = pagePc[d]
    BY <1>7 DEF PageCallFails, EndPageCall, PageGoto
  <2>2. CASE pagePc[c] \in {"firstVersion", "point"}
    BY <1>7, <2>2 DEF PageCallFails, WholeInv
  <2>3. CASE pagePc[c] \notin {"firstVersion", "point"}
    BY <1>1, <1>7, <2>1, <2>3 DEF PageCallFails, WholeInv
  <2>4. QED
    BY <2>2, <2>3
<1>8. CASE UNCHANGED pageVars
  BY <1>8 DEF pageVars, pageLocals, WholeInv
<1>9. QED
  BY <1>2, <1>3, <1>4, <1>5, <1>6, <1>7, <1>8 DEF PageNext

\* The inductive invariant of the page: a publication that no other crossed goes
\* on from what was read, and what is missing is between the two commits of a call.
THEOREM PageInvariant == PageSpec => []PageInv
<1>1. PageInv /\ [PageNext]_pageVars => PageInv'
  BY PageNextType, NextUncrossed, NextWhole DEF PageInv
<1>2. QED
  BY PageInitInv, <1>1, PTL DEF PageSpec

\* A read of a page finds a current version unless a publication crossed it, a
\* call is between its two commits, or one died there, for any number of calls.
THEOREM ReadsAreNotBlank == PageSpec => []PageIsNotBlank
<1>1. PageInv => PageIsNotBlank
  <2>1. SUFFICES ASSUME PageInv, NEW c \in PageCalls, pagePc[c] = "findDraft",
                        CurrentVersion(c) = 0, ~crossed[c]
                 PROVE  Awaited("firstVersion") \/ Awaited("point")
    BY DEF PageIsNotBlank, Awaited
  <2>2. 0 \notin Drafts
    BY <2>1 DEF PageInv, PageType, Drafts
  <2>3. Drafts = {} /\ pick[c] = 0
    <3>1. LatestDraft = 0
      BY <2>1, LatestIsLast DEF CurrentVersion
    <3>2. QED
      BY <2>1, <2>2, <3>1, LatestIsLast DEF CurrentVersion, PageInv
  <2>4. live = 0 /\ page
    BY <2>1, <2>3 DEF PageInv, UncrossedInv, TargetIsThere
  <2>5. CASE version = << >>
    BY <2>1, <2>4, <2>5 DEF PageInv, WholeInv
  <2>6. CASE version # << >>
    <3>1. 1 \in 1..Len(version) /\ version[1] \in {"draft", "published"}
      BY <2>1, <2>6 DEF PageInv, PageType
    <3>2. version[1] = "published"
      BY <2>3, <3>1 DEF Drafts
    <3>3. QED
      BY <2>1, <2>4, <3>1, <3>2 DEF PageInv, WholeInv
  <2>7. QED
    BY <2>5, <2>6
<1>2. QED
  BY PageInvariant, <1>1, PTL

\* What is published goes back only on request, on a retry of what was done, or
\* when another publication crossed it, for any number of calls.
THEOREM PublicationMovesOn == PageSpec => PublishedGoesBack
<1> DEFINE Explained == live' < live => \E c \in PageCalls :
             /\ pagePc[c] \in {"promote", "point"} /\ pagePc'[c] = "idle" /\ pick[c] = live'
             /\ chosen[c] \/ repeated[c] \/ crossed[c]
<1>1. ASSUME PageInv, [PageNext]_pageVars PROVE Explained
  <2>1. SUFFICES ASSUME live' < live PROVE Explained
    OBVIOUS
  <2>2. PageType
    BY <1>1 DEF PageInv
  <2>3. PICK c \in PageCalls : Promote(c) \/ Point(c)
    BY <1>1, <2>1, <2>2 DEF PageNext, CreatePage, ReadMax, InsertVersion, FindTarget, ReadPage, AnswerPage,
                      PageCallFails, pageVars, PageType
  <2>4. pagePc[c] \in {"promote", "point"} /\ live' = pick[c] /\ EndPageCall(c)
    BY <2>1, <2>2, <2>3 DEF Promote, Point, PageType
  <2>5. pagePc'[c] = "idle"
    BY <2>2, <2>4, PageCallEnds
  <2>6. chosen[c] \/ repeated[c] \/ crossed[c]
    BY <1>1, <2>1, <2>2, <2>4 DEF PageInv, UncrossedInv, PageType
  <2>7. QED
    BY <2>4, <2>5, <2>6
<1>2. PageInv /\ [PageNext]_pageVars => [Explained]_pageVars
  BY <1>1
<1>3. QED
  BY PageInvariant, <1>2, PTL DEF PageSpec, PublishedGoesBack

\* Versions and what calls append are within the bound.
VersionsBound ==
  /\ pageTier \in PageTiers
  /\ Len(version) <= MaxVersions
  /\ \A c \in PageCalls :
       /\ pick[c] <= MaxVersions
       /\ pagePc[c] \in {"append", "firstVersion"} => pick[c] # 0

LEMMA NextVersionsBound ==
  ASSUME PageType, PageType', TargetIsThere, VersionsBound, [PageNext]_pageVars
  PROVE  VersionsBound'
<1> USE DEF PageType, VersionsBound
<1>1. MaxVersions \in Nat \ {0} /\ Len(version) \in Nat
  BY PageAssumption
\* A call that goes on or ends; the others stay.
<1>2. ASSUME NEW c \in PageCalls, Len(version') <= MaxVersions, pageTier' = pageTier,
             NEW step, NEW n \in 0..MaxVersions, PageGoto(c, step, n),
             step \in {"append", "firstVersion"} => n # 0
      PROVE  VersionsBound'
  BY <1>2 DEF PageGoto
<1>3. ASSUME NEW c \in PageCalls, Len(version') <= MaxVersions, pageTier' = pageTier, PageGoto(c, "idle", 0)
       PROVE  VersionsBound'
  BY <1>1, <1>3 DEF PageGoto
<1>4. ASSUME NEW c \in PageCalls, CreatePage(c) PROVE VersionsBound'
  <2>1. Len(version') <= MaxVersions
    <3>1. Len(<<"draft">>) = 1
      OBVIOUS
    <3>2. QED
      <4>1. version' = <<"draft">> \/ version' = version
        BY <1>4 DEF CreatePage
      <4>2. CASE version' = <<"draft">>
        BY <1>1, <3>1, <4>2
      <4>3. CASE version' = version
        BY <4>3
      <4>4. QED
        BY <4>1, <4>2, <4>3
  <2>2. pageTier' = pageTier
    BY <1>4 DEF CreatePage
  <2>3. CASE PageGoto(c, "firstVersion", 1)
    BY <1>1, <1>2, <2>1, <2>2, <2>3
  <2>4. CASE UNCHANGED <<pagePc, pick>>
    BY <2>1, <2>2, <2>4
  <2>5. QED
    BY <1>4, <2>3, <2>4 DEF CreatePage
<1>5. ASSUME NEW c \in PageCalls, ReadMax(c) PROVE VersionsBound'
  <2>1. /\ PageGoto(c, "append", Len(version) + 1) /\ UNCHANGED <<pageTier, version>>
        /\ Len(version) < MaxVersions
    BY <1>5 DEF ReadMax
  <2>2. Len(version) + 1 \in 0..MaxVersions /\ Len(version) + 1 # 0
    BY <1>1, <2>1
  <2>3. QED
    BY <1>2, <2>1, <2>2
<1>6. ASSUME NEW c \in PageCalls, ReadPage(c) PROVE VersionsBound'
  <2>1. PageGoto(c, "findDraft", live) /\ UNCHANGED <<pageTier, version>>
    BY <1>6 DEF ReadPage
  <2>2. live \in 0..MaxVersions
    BY <1>1
  <2>3. QED
    BY <1>2, <2>1, <2>2
<1>7. ASSUME NEW c \in PageCalls, InsertVersion(c) PROVE VersionsBound'
  <2>1. /\ PageGoto(c, "idle", 0) /\ pageTier' = pageTier /\ pick[c] # 0
        /\ version' = version \/ (pick[c] \notin DOMAIN version /\ version' = Append(version, "draft"))
    BY <1>7 DEF InsertVersion, EndPageCall
  <2>2. CASE version' = version
    BY <1>3, <2>1, <2>2
  <2>3. CASE pick[c] \notin DOMAIN version /\ version' = Append(version, "draft")
    <3>1. DOMAIN version = 1..Len(version) /\ Len(version') = Len(version) + 1
      BY <2>3
    <3>2. pick[c] > Len(version) /\ pick[c] <= MaxVersions
      <4>1. pick[c] \in Nat /\ pick[c] \notin 1..Len(version) /\ pick[c] <= MaxVersions
        BY <2>3, <3>1
      <4>2. QED
        BY <1>1, <2>1, <4>1
    <3>3. Len(version') <= MaxVersions
      BY <1>1, <3>1, <3>2
    <3>4. QED
      BY <1>3, <2>1, <3>3
  <2>4. QED
    BY <2>1, <2>2, <2>3
<1>8. ASSUME NEW c \in PageCalls, FindTarget(c) PROVE VersionsBound'
  <2>1. PICK v \in DOMAIN version : PageGoto(c, "promote", v)
    BY <1>8 DEF FindTarget
  <2>2. v \in 0..MaxVersions /\ UNCHANGED <<pageTier, version>>
    BY <1>1, <1>8 DEF FindTarget
  <2>3. QED
    BY <1>2, <2>1, <2>2
<1>9. ASSUME NEW c \in PageCalls, Promote(c) \/ Point(c) PROVE VersionsBound'
  <2>1. Len(version') = Len(version) /\ pageTier' = pageTier
    BY <1>9 DEF Promote, Point
  <2>2. PageGoto(c, "idle", 0) \/ PageGoto(c, "point", pick[c])
    BY <1>9 DEF Promote, Point, EndPageCall
  <2>3. pick[c] \in 0..MaxVersions
    BY <1>1
  <2>4. CASE PageGoto(c, "idle", 0)
    BY <1>3, <2>1, <2>4
  <2>5. CASE PageGoto(c, "point", pick[c])
    BY <1>2, <2>1, <2>3, <2>5
  <2>6. QED
    BY <2>2, <2>4, <2>5
<1>10. ASSUME NEW c \in PageCalls, AnswerPage(c) \/ PageCallFails(c) PROVE VersionsBound'
  BY <1>3, <1>10 DEF AnswerPage, PageCallFails, EndPageCall
<1>11. CASE UNCHANGED pageVars
  BY <1>11 DEF pageVars, pageLocals
<1>12. QED
  BY <1>4, <1>5, <1>6, <1>7, <1>8, <1>9, <1>10, <1>11 DEF PageNext

\* Every reachable state of a page, its versions and the calls at it is well typed:
\* versions are numbered within the bound, whoever appends at the same time.
THEOREM PageTypeCorrect == PageSpec => []PageTypeOK
<1>1. PageInit => VersionsBound
  <2>1. MaxVersions \in Nat /\ Len(<< >>) = 0
    BY PageAssumption
  <2>2. QED
    BY <2>1 DEF PageInit, VersionsBound
<1>2. PageInv /\ PageInv' /\ VersionsBound /\ [PageNext]_pageVars => VersionsBound'
  BY NextVersionsBound DEF PageInv
<1>3. PageInv /\ VersionsBound => PageTypeOK
  <2>1. MaxVersions \in Nat
    BY PageAssumption
  <2>2. QED
    BY <2>1 DEF PageInv, PageType, VersionsBound, PageTypeOK
<1>4. QED
  BY PageInvariant, <1>1, <1>2, <1>3, PTL DEF PageSpec
-----------------------------------------------------------------------------
(* Invoices and subscriptions. *)

\* COUNT(*) is of rows that are still there: invoices are not deleted.
CountInv == \A c \in BillingCalls : invoiceCount[c] <= Len(invoice)

\* A call under way is about a subscription that exists.
SubjectInv == \A c \in BillingCalls : billingPc[c] # "idle" => subject[c] \in DOMAIN subscription

\* What a call checked holds until it writes, unless a cancel overtook it.
CheckedInv == \A c \in BillingCalls :
  billingPc[c] = "update" /\ ~overtaken[c] => subscription[subject[c]] # "canceled"

BillingIInv == BillingTypeOK /\ SubjectInv /\ CheckedInv /\ CountInv /\ InvoicesAreGapless

-----------------------------------------------------------------------------
USE BillingAssumption

LEMMA BillingInitInv == BillingInit => BillingIInv
<1> SUFFICES ASSUME BillingInit PROVE BillingIInv
  OBVIOUS
<1> USE DEF BillingInit
<1>1. subscription \in Seq(Status) /\ Len(subscription) = 0
  OBVIOUS
<1>2. invoice \in Seq([number : Nat, subscription : Subscriptions]) /\ Len(invoice) = 0
  OBVIOUS
<1>3. BillingTypeOK
  BY <1>1, <1>2 DEF BillingTypeOK, Status
<1>4. QED
  BY <1>2, <1>3 DEF BillingIInv, SubjectInv, CheckedInv, CountInv, InvoicesAreGapless

LEMMA EndType ==
  ASSUME BillingTypeOK, NEW c \in BillingCalls, EndBilling(c)
  PROVE  /\ billingPc' \in [BillingCalls -> {"idle", "check", "update", "count", "insert"}]
         /\ subject' \in [BillingCalls -> Subscriptions \union {0}]
         /\ target' \in [BillingCalls -> Status]
         /\ invoiceCount' \in [BillingCalls -> 0..MaxInvoices]
  BY DEF BillingTypeOK, EndBilling, Status

\* Appending a row keeps the rows there are.
LEMMA AppendSubscription ==
  ASSUME BillingTypeOK, Subscribe
  PROVE  /\ subscription' \in Seq(Status) /\ Len(subscription') <= MaxSubscriptions
         /\ DOMAIN subscription \subseteq DOMAIN subscription'
         /\ \A s \in DOMAIN subscription : subscription'[s] = subscription[s]
<1>1. PICK s \in Status : subscription' = Append(subscription, s)
  BY DEF Subscribe
<1>2. subscription \in Seq(Status) /\ Len(subscription) < MaxSubscriptions
  BY DEF BillingTypeOK, Subscribe
<1>3. QED
  BY <1>1, <1>2, AppendProperties

LEMMA SubjectType ==
  ASSUME BillingTypeOK, SubjectInv, NEW c \in BillingCalls, billingPc[c] # "idle"
  PROVE  subject[c] \in Subscriptions
<1>1. subject[c] \in DOMAIN subscription
  BY DEF SubjectInv
<1>2. subject[c] # 0
  BY <1>1, LenProperties DEF BillingTypeOK
<1>3. QED
  BY <1>2 DEF BillingTypeOK

LEMMA BillingNextType ==
  ASSUME BillingTypeOK, SubjectInv, [BillingNext]_billingVars
  PROVE  BillingTypeOK'
<1> USE DEF BillingTypeOK
<1>1. CASE Subscribe
  BY <1>1, AppendSubscription DEF Subscribe, billingLocals
<1>2. ASSUME NEW c \in BillingCalls, NEW step \in {"check", "count"}, BeginCall(c, step)
      PROVE  /\ billingPc' \in [BillingCalls -> {"idle", "check", "update", "count", "insert"}]
             /\ subject' \in [BillingCalls -> Subscriptions \union {0}]
  <2>1. subscription # << >> => Len(subscription) \in 1..MaxSubscriptions
    BY EmptySeq, LenProperties
  <2>2. QED
    BY <1>2, <2>1 DEF BeginCall, Subscriptions
<1>3. ASSUME NEW c \in BillingCalls, BeginTransition(c) PROVE BillingTypeOK'
  <2>1. BeginCall(c, "check")
    BY <1>3 DEF BeginTransition
  <2>2. target' \in [BillingCalls -> Status]
    BY <1>3 DEF BeginTransition
  <2>3. UNCHANGED <<subscription, invoice, invoiceCount, overtaken>>
    BY <2>1 DEF BeginCall
  <2>4. QED
    BY <1>2, <2>1, <2>2, <2>3
<1>4. ASSUME NEW c \in BillingCalls, CheckTransition(c) PROVE BillingTypeOK'
  BY <1>4, EndType DEF CheckTransition
<1>5. ASSUME NEW c \in BillingCalls, UpdateStatus(c) PROVE BillingTypeOK'
  <2>1. subject[c] \in DOMAIN subscription
    BY <1>5 DEF UpdateStatus, SubjectInv
  <2>2. subscription' \in Seq(Status) /\ Len(subscription') = Len(subscription)
    BY <1>5, <2>1, ExceptSeq DEF UpdateStatus
  <2>3. overtaken' \in [BillingCalls -> BOOLEAN]
    BY <1>5 DEF UpdateStatus
  <2>4. QED
    BY <1>5, <2>2, <2>3, EndType DEF UpdateStatus
<1>6. ASSUME NEW c \in BillingCalls, BeginInvoice(c) PROVE BillingTypeOK'
  BY <1>2, <1>6 DEF BeginInvoice, BeginCall
<1>7. ASSUME NEW c \in BillingCalls, CountInvoices(c) PROVE BillingTypeOK'
  <2>1. Len(invoice) \in 0..MaxInvoices
    BY LenProperties
  <2>2. QED
    BY <1>7, <2>1 DEF CountInvoices
<1>8. ASSUME NEW c \in BillingCalls, InsertInvoice(c) PROVE BillingTypeOK'
  <2>1. subject[c] \in Subscriptions
    BY <1>8, SubjectType DEF InsertInvoice
  <2>2. invoiceCount[c] + 1 \in Nat
    OBVIOUS
  <2>3. invoice' \in Seq([number : Nat, subscription : Subscriptions]) /\ Len(invoice') <= MaxInvoices
    <3>1. CASE UNCHANGED invoice
      BY <3>1
    <3>2. CASE /\ Len(invoice) < MaxInvoices
               /\ invoice' = Append(invoice, [number |-> invoiceCount[c] + 1, subscription |-> subject[c]])
      <4>1. [number |-> invoiceCount[c] + 1, subscription |-> subject[c]]
              \in [number : Nat, subscription : Subscriptions]
        BY <2>1, <2>2
      <4>2. Len(invoice) \in Nat
        BY LenProperties
      <4>3. QED
        BY <3>2, <4>1, <4>2, AppendProperties
    <3>3. QED
      BY <1>8, <3>1, <3>2 DEF InsertInvoice
  <2>4. QED
    BY <1>8, <2>3, EndType DEF InsertInvoice
<1>9. ASSUME NEW c \in BillingCalls, BillingFails(c) PROVE BillingTypeOK'
  BY <1>9, EndType DEF BillingFails
<1>10. CASE UNCHANGED billingVars
  BY <1>10 DEF billingVars, billingLocals
<1>11. QED
  BY <1>1, <1>3, <1>4, <1>5, <1>6, <1>7, <1>8, <1>9, <1>10 DEF BillingNext

\* Every call but the one that begins is about the subscription it was about.
LEMMA NextSubject ==
  ASSUME BillingTypeOK, SubjectInv, [BillingNext]_billingVars
  PROVE  SubjectInv'
<1> USE DEF SubjectInv, BillingTypeOK
<1>1. CASE Subscribe
  BY <1>1, AppendSubscription DEF Subscribe, billingLocals
<1>2. ASSUME NEW c \in BillingCalls, NEW step \in {"check", "count"}, BeginCall(c, step)
      PROVE  SubjectInv'
  <2>1. Len(subscription) \in DOMAIN subscription /\ DOMAIN subscription' = DOMAIN subscription
    BY <1>2, EmptySeq, LenProperties DEF BeginCall
  <2>2. QED
    BY <1>2, <2>1 DEF BeginCall
<1>3. ASSUME NEW c \in BillingCalls, BeginTransition(c) PROVE SubjectInv'
  BY <1>2, <1>3 DEF BeginTransition
<1>4. ASSUME NEW c \in BillingCalls, CheckTransition(c) PROVE SubjectInv'
  BY <1>4 DEF CheckTransition, EndBilling
<1>5. ASSUME NEW c \in BillingCalls, UpdateStatus(c) PROVE SubjectInv'
  <2>1. DOMAIN subscription' = DOMAIN subscription
    BY <1>5 DEF UpdateStatus
  <2>2. QED
    BY <1>5, <2>1 DEF UpdateStatus, EndBilling
<1>6. ASSUME NEW c \in BillingCalls, BeginInvoice(c) PROVE SubjectInv'
  BY <1>2, <1>6 DEF BeginInvoice
<1>7. ASSUME NEW c \in BillingCalls, CountInvoices(c) PROVE SubjectInv'
  BY <1>7 DEF CountInvoices
<1>8. ASSUME NEW c \in BillingCalls, InsertInvoice(c) PROVE SubjectInv'
  BY <1>8 DEF InsertInvoice, EndBilling
<1>9. ASSUME NEW c \in BillingCalls, BillingFails(c) PROVE SubjectInv'
  BY <1>9 DEF BillingFails, EndBilling
<1>10. CASE UNCHANGED billingVars
  BY <1>10 DEF billingVars, billingLocals
<1>11. QED
  BY <1>1, <1>3, <1>4, <1>5, <1>6, <1>7, <1>8, <1>9, <1>10 DEF BillingNext

\* A cancel marks whom it overtakes, and nothing is allowed from canceled.
LEMMA NextChecked ==
  ASSUME BillingTypeOK, SubjectInv, CheckedInv, [BillingNext]_billingVars
  PROVE  CheckedInv'
<1> USE DEF CheckedInv, SubjectInv, BillingTypeOK
<1>1. CASE Subscribe
  BY <1>1, AppendSubscription DEF Subscribe, billingLocals
<1>2. ASSUME NEW c \in BillingCalls, NEW step \in {"check", "count"}, BeginCall(c, step)
      PROVE  CheckedInv'
  BY <1>2 DEF BeginCall
<1>3. ASSUME NEW c \in BillingCalls, BeginTransition(c) PROVE CheckedInv'
  BY <1>2, <1>3 DEF BeginTransition
<1>4. ASSUME NEW c \in BillingCalls, CheckTransition(c) PROVE CheckedInv'
  <2>1. CanTransition(subscription[subject[c]], target[c]) => subscription[subject[c]] # "canceled"
    BY DEF CanTransition, Allowed
  <2>2. QED
    BY <1>4, <2>1 DEF CheckTransition, EndBilling
<1>5. ASSUME NEW c \in BillingCalls, UpdateStatus(c) PROVE CheckedInv'
  <2>1. SUFFICES ASSUME NEW d \in BillingCalls, billingPc'[d] = "update", ~overtaken'[d]
                 PROVE  subscription'[subject'[d]] # "canceled"
    OBVIOUS
  <2>2. d # c /\ billingPc[d] = "update" /\ subject'[d] = subject[d]
    BY <1>5, <2>1 DEF UpdateStatus, EndBilling
  <2>3. ~overtaken[d] /\ ~(target[c] = "canceled" /\ subject[d] = subject[c])
    BY <1>5, <2>1, <2>2 DEF UpdateStatus
  <2>4. subject[d] \in DOMAIN subscription /\ subscription[subject[d]] # "canceled"
    BY <2>2, <2>3
  <2>5. QED
    BY <1>5, <2>2, <2>3, <2>4 DEF UpdateStatus
<1>6. ASSUME NEW c \in BillingCalls, BeginInvoice(c) PROVE CheckedInv'
  BY <1>2, <1>6 DEF BeginInvoice
<1>7. ASSUME NEW c \in BillingCalls, CountInvoices(c) PROVE CheckedInv'
  BY <1>7 DEF CountInvoices
<1>8. ASSUME NEW c \in BillingCalls, InsertInvoice(c) PROVE CheckedInv'
  BY <1>8 DEF InsertInvoice, EndBilling
<1>9. ASSUME NEW c \in BillingCalls, BillingFails(c) PROVE CheckedInv'
  BY <1>9 DEF BillingFails, EndBilling
<1>10. CASE UNCHANGED billingVars
  BY <1>10 DEF billingVars, billingLocals
<1>11. QED
  BY <1>1, <1>3, <1>4, <1>5, <1>6, <1>7, <1>8, <1>9, <1>10 DEF BillingNext

\* A count may be out of date, but never above the number of rows; one that is
\* below it gives a number that is taken.
LEMMA NextNumbers ==
  ASSUME BillingTypeOK, SubjectInv, CountInv, InvoicesAreGapless, [BillingNext]_billingVars
  PROVE  CountInv' /\ InvoicesAreGapless'
<1>1. Len(invoice) \in Nat /\ DOMAIN invoice = 1..Len(invoice)
  BY LenProperties DEF BillingTypeOK
<1>2. ASSUME UNCHANGED invoice, \A c \in BillingCalls : invoiceCount'[c] \in {invoiceCount[c], 0, Len(invoice)}
      PROVE  CountInv' /\ InvoicesAreGapless'
  BY <1>1, <1>2 DEF CountInv, InvoicesAreGapless
<1>3. ASSUME NEW c \in BillingCalls, InsertInvoice(c) PROVE CountInv' /\ InvoicesAreGapless'
  <2> DEFINE new == [number |-> invoiceCount[c] + 1, subscription |-> subject[c]]
  <2>1. \A d \in BillingCalls : invoiceCount'[d] \in {invoiceCount[d], 0}
    BY <1>3 DEF InsertInvoice, EndBilling, BillingTypeOK
  <2>2. CASE UNCHANGED invoice
    BY <1>2, <2>1, <2>2
  <2>3. CASE invoiceCount[c] + 1 \notin Numbers /\ invoice' = Append(invoice, new)
    <3>1. Numbers = 1..Len(invoice)
      BY <1>1 DEF Numbers, InvoicesAreGapless
    <3>2. invoiceCount[c] = Len(invoice)
      BY <1>1, <2>3, <3>1 DEF CountInv, BillingTypeOK
    <3>3. invoice \in Seq([number : Nat, subscription : Subscriptions])
      BY DEF BillingTypeOK
    <3>4. new \in [number : Nat, subscription : Subscriptions]
      BY <1>3, SubjectType DEF InsertInvoice, BillingTypeOK
    <3>5. /\ Len(invoice') = Len(invoice) + 1
          /\ \A i \in 1..Len(invoice) : invoice'[i] = invoice[i]
          /\ invoice'[Len(invoice) + 1] = new
          /\ DOMAIN invoice' = 1..Len(invoice) + 1
      BY <2>3, <3>3, <3>4, AppendProperties, LenProperties
    <3>6. InvoicesAreGapless'
      BY <1>1, <3>2, <3>5 DEF InvoicesAreGapless
    <3>7. \A d \in BillingCalls : invoiceCount[d] \in Nat /\ invoiceCount[d] <= Len(invoice)
      BY DEF CountInv, BillingTypeOK
    <3>8. CountInv'
      BY <1>1, <2>1, <3>5, <3>7 DEF CountInv
    <3>9. QED
      BY <3>6, <3>8
  <2>4. QED
    BY <1>3, <2>2, <2>3 DEF InsertInvoice
<1>4. ASSUME NEW c \in BillingCalls, EndBilling(c) PROVE \A d \in BillingCalls : invoiceCount'[d] \in {invoiceCount[d], 0}
  BY <1>4 DEF EndBilling, BillingTypeOK
<1>5. CASE Subscribe
  BY <1>2, <1>5 DEF Subscribe, billingLocals
<1>6. ASSUME NEW c \in BillingCalls, BeginTransition(c) \/ BeginInvoice(c)
      PROVE  CountInv' /\ InvoicesAreGapless'
  BY <1>2, <1>6 DEF BeginTransition, BeginInvoice, BeginCall
<1>7. ASSUME NEW c \in BillingCalls, CheckTransition(c) \/ UpdateStatus(c) \/ BillingFails(c)
      PROVE  CountInv' /\ InvoicesAreGapless'
  BY <1>2, <1>4, <1>7 DEF CheckTransition, UpdateStatus, BillingFails
<1>8. ASSUME NEW c \in BillingCalls, CountInvoices(c) PROVE CountInv' /\ InvoicesAreGapless'
  BY <1>2, <1>8 DEF CountInvoices, BillingTypeOK
<1>9. CASE UNCHANGED billingVars
  BY <1>2, <1>9 DEF billingVars, billingLocals
<1>10. QED
  BY <1>3, <1>5, <1>6, <1>7, <1>8, <1>9 DEF BillingNext

\* The inductive invariant: calls are about subscriptions that exist, a checked
\* one is not canceled unless overtaken, and counts are never above the rows.
THEOREM BillingInvariant == BillingSpec => []BillingIInv
<1>1. BillingIInv /\ [BillingNext]_billingVars => BillingIInv'
  BY BillingNextType, NextSubject, NextChecked, NextNumbers DEF BillingIInv
<1>2. QED
  BY BillingInitInv, <1>1, PTL DEF BillingSpec

\* Invoices are numbered 1, 2, 3 ... in the order they were committed, however
\* many calls of createInvoice count at once, fail or die.
THEOREM GaplessInvoices == BillingSpec => []InvoicesAreGapless
<1>1. BillingIInv => InvoicesAreGapless
  BY DEF BillingIInv
<1>2. QED
  BY BillingInvariant, <1>1, PTL

\* A subscription leaves canceled only by the UPDATE of a call that had checked
\* the transition before the cancel committed.
THEOREM CanceledStays == BillingSpec => CanceledIsTerminal
<1> DEFINE Leaves ==
      \A s \in DOMAIN subscription :
        subscription[s] = "canceled" /\ subscription'[s] # "canceled" =>
          \E c \in BillingCalls : overtaken[c] /\ subject[c] = s /\ billingPc'[c] = "idle"
<1>1. ASSUME BillingIInv, [BillingNext]_billingVars PROVE Leaves
  <2>1. SUFFICES ASSUME NEW s \in DOMAIN subscription,
                        subscription[s] = "canceled", subscription'[s] # "canceled"
                 PROVE  \E c \in BillingCalls : overtaken[c] /\ subject[c] = s /\ billingPc'[c] = "idle"
    OBVIOUS
  <2>2. ~Subscribe
    BY <1>1, <2>1, AppendSubscription DEF BillingIInv
  <2>3. PICK c \in BillingCalls : UpdateStatus(c)
    BY <1>1, <2>1, <2>2
       DEF BillingNext, billingVars, BeginTransition, BeginInvoice, BeginCall, CheckTransition,
           CountInvoices, InsertInvoice, BillingFails
  <2>4. subject[c] = s
    BY <2>1, <2>3 DEF UpdateStatus
  <2>5. overtaken[c]
    BY <1>1, <2>1, <2>3, <2>4 DEF BillingIInv, CheckedInv, UpdateStatus
  <2>6. billingPc'[c] = "idle"
    BY <1>1, <2>3 DEF BillingIInv, BillingTypeOK, UpdateStatus, EndBilling
  <2>7. QED
    BY <2>4, <2>5, <2>6
<1>2. QED
  BY BillingInvariant, <1>1, PTL DEF BillingSpec, CanceledIsTerminal
-----------------------------------------------------------------------------
(* The pipelines of a video asset. *)

ToAnnounce == {"announceReady", "announceFailed"}

\* The pool tier has no second commit.
PoolInv == videoTier = "pool" => \A p \in Pipelines : pipelinePc[p] \notin ToAnnounce

\* Until a second one starts there is one pipeline.
AloneInv == ~mixed => \A p, q \in Pipelines : pipelinePc[p] # "idle" /\ pipelinePc[q] # "idle" => p = q

\* What a lone pipeline is about to announce is the status.
OutcomeInv == ~mixed => \A p \in Pipelines :
  /\ pipelinePc[p] = "announceReady" => videoStatus = "ready"
  /\ pipelinePc[p] = "announceFailed" => videoStatus = "failed"

PipelineIInv == VideoTypeOK /\ PoolInv /\ AloneInv /\ OutcomeInv /\ StatusAnnounced

-----------------------------------------------------------------------------
USE VideoAssumption DEF VideoAssumption

LEMMA PipelineInitInv == VideoInit => PipelineIInv
<1> SUFFICES ASSUME VideoInit PROVE PipelineIInv
  OBVIOUS
<1>1. videoEvents \in Seq({"ready", "failed"})
  BY DEF VideoInit
<1>2. started \in 0..MaxPipelines
  BY DEF VideoInit
<1>3. VideoTypeOK
  BY <1>1, <1>2 DEF VideoInit, VideoTypeOK
<1>4. PoolInv /\ AloneInv /\ OutcomeInv /\ StatusAnnounced
  BY DEF VideoInit, PoolInv, AloneInv, OutcomeInv, StatusAnnounced, ToAnnounce
<1>5. QED
  BY <1>3, <1>4 DEF PipelineIInv

\* An event is the last of the asset's when it commits.
LEMMA LastEvent ==
  ASSUME VideoTypeOK, NEW e \in {"ready", "failed"}, videoEvents' = Append(videoEvents, e)
  PROVE  /\ videoEvents' \in Seq({"ready", "failed"}) /\ videoEvents' # << >>
         /\ videoEvents'[Len(videoEvents')] = e
<1>1. videoEvents \in Seq({"ready", "failed"}) /\ Len(videoEvents) \in Nat
  BY LenProperties DEF VideoTypeOK
<1>2. /\ videoEvents' \in Seq({"ready", "failed"})
      /\ Len(videoEvents') = Len(videoEvents) + 1
      /\ videoEvents'[Len(videoEvents) + 1] = e
  BY <1>1, AppendProperties
<1>3. videoEvents' # << >>
  BY <1>1, <1>2, EmptySeq
<1>4. QED
  BY <1>2, <1>3

LEMMA PipelineNextType ==
  ASSUME VideoTypeOK, [VideoNext]_videoVars
  PROVE  VideoTypeOK'
<1> USE DEF VideoTypeOK, PipelineGoto
<1>1. ASSUME NEW p \in Pipelines, StartPipeline(p) PROVE VideoTypeOK'
  <2>1. started' \in 0..MaxPipelines
    BY <1>1 DEF StartPipeline
  <2>2. mixed' \in BOOLEAN
    BY <1>1 DEF StartPipeline
  <2>3. QED
    BY <1>1, <2>1, <2>2 DEF StartPipeline
<1>2. ASSUME NEW p \in Pipelines, SetTranscoding(p) \/ Process(p) PROVE VideoTypeOK'
  BY <1>2 DEF SetTranscoding, Process
<1>3. ASSUME NEW p \in Pipelines, NEW s \in {"ready", "failed"}, NEW a \in ToAnnounce, Conclude(p, s, a)
      PROVE  VideoTypeOK'
  BY <1>3, LastEvent DEF Conclude, ToAnnounce
<1>4. ASSUME NEW p \in Pipelines, NEW s \in {"ready", "failed"}, Announce(p, s) PROVE VideoTypeOK'
  BY <1>4, LastEvent DEF Announce
<1>5. ASSUME NEW p \in Pipelines, Throw(p) \/ Abandon(p) PROVE VideoTypeOK'
  BY <1>5 DEF Throw, Abandon
<1>6. CASE UNCHANGED videoVars
  BY <1>6 DEF videoVars
<1>7. QED
  BY <1>1, <1>2, <1>3, <1>4, <1>5, <1>6
     DEF VideoNext, PipelineStep, MarkReady, MarkFailed, AnnounceReady, AnnounceFailed, ToAnnounce

\* A pipeline that goes on leaves the others where they are.
LEMMA NextAlone ==
  ASSUME VideoTypeOK, AloneInv, PoolInv, [VideoNext]_videoVars
  PROVE  AloneInv' /\ PoolInv'
<1> USE DEF VideoTypeOK, PipelineGoto, AloneInv, PoolInv, ToAnnounce
<1>1. ASSUME NEW p \in Pipelines, StartPipeline(p) PROVE AloneInv' /\ PoolInv'
  BY <1>1 DEF StartPipeline, VideoAtRest
<1>2. ASSUME NEW p \in Pipelines, SetTranscoding(p) \/ Process(p) PROVE AloneInv' /\ PoolInv'
  BY <1>2 DEF SetTranscoding, Process
<1>3. ASSUME NEW p \in Pipelines, MarkReady(p) \/ MarkFailed(p) PROVE AloneInv' /\ PoolInv'
  BY <1>3 DEF MarkReady, MarkFailed, Conclude
<1>4. ASSUME NEW p \in Pipelines, AnnounceReady(p) \/ AnnounceFailed(p) PROVE AloneInv' /\ PoolInv'
  BY <1>4 DEF AnnounceReady, AnnounceFailed, Announce
<1>5. ASSUME NEW p \in Pipelines, Throw(p) \/ Abandon(p) PROVE AloneInv' /\ PoolInv'
  BY <1>5 DEF Throw, Abandon, Trying
<1>6. CASE UNCHANGED videoVars
  BY <1>6 DEF videoVars
<1>7. QED
  BY <1>1, <1>2, <1>3, <1>4, <1>5, <1>6 DEF VideoNext, PipelineStep

LEMMA NextOutcome ==
  ASSUME VideoTypeOK, AloneInv, OutcomeInv, [VideoNext]_videoVars
  PROVE  OutcomeInv'
<1> USE DEF VideoTypeOK, PipelineGoto, AloneInv, OutcomeInv
<1>1. ASSUME NEW p \in Pipelines, StartPipeline(p) PROVE OutcomeInv'
  BY <1>1 DEF StartPipeline, VideoAtRest
<1>2. ASSUME NEW p \in Pipelines, SetTranscoding(p) \/ Process(p) PROVE OutcomeInv'
  BY <1>2 DEF SetTranscoding, Process
<1>3. ASSUME NEW p \in Pipelines, MarkReady(p) \/ MarkFailed(p) PROVE OutcomeInv'
  BY <1>3 DEF MarkReady, MarkFailed, Conclude
<1>4. ASSUME NEW p \in Pipelines, AnnounceReady(p) \/ AnnounceFailed(p) PROVE OutcomeInv'
  BY <1>4 DEF AnnounceReady, AnnounceFailed, Announce
<1>5. ASSUME NEW p \in Pipelines, Throw(p) \/ Abandon(p) PROVE OutcomeInv'
  BY <1>5 DEF Throw, Abandon, Trying
<1>6. CASE UNCHANGED videoVars
  BY <1>6 DEF videoVars
<1>7. QED
  BY <1>1, <1>2, <1>3, <1>4, <1>5, <1>6 DEF VideoNext, PipelineStep

\* The asset comes to rest by a step that writes the event, or is abandoned.
LEMMA NextAnnounced ==
  ASSUME PipelineIInv, [VideoNext]_videoVars
  PROVE  StatusAnnounced'
<1> USE DEF PipelineIInv, VideoTypeOK, PipelineGoto, StatusAnnounced
<1>1. ASSUME NEW p \in Pipelines, pipelinePc'[p] # "idle" PROVE StatusAnnounced'
  BY <1>1 DEF VideoAtRest
<1>2. ASSUME NEW p \in Pipelines, StartPipeline(p) PROVE StatusAnnounced'
  BY <1>1, <1>2 DEF StartPipeline
<1>3. ASSUME NEW p \in Pipelines, SetTranscoding(p) \/ Process(p) PROVE StatusAnnounced'
  BY <1>1, <1>3 DEF SetTranscoding, Process
<1>4. ASSUME NEW p \in Pipelines, NEW s \in {"ready", "failed"}, NEW a \in ToAnnounce, Conclude(p, s, a)
      PROVE  StatusAnnounced'
  <2>1. CASE PipelineGoto(p, a)
    BY <1>1, <2>1 DEF ToAnnounce
  <2>2. CASE videoEvents' = Append(videoEvents, s)
    BY <1>4, <2>2, LastEvent DEF Conclude
  <2>3. QED
    BY <1>4, <2>1, <2>2 DEF Conclude
<1>5. ASSUME NEW p \in Pipelines, NEW s \in {"ready", "failed"},
             pipelinePc[p] \in ToAnnounce, videoTier = "silo" /\ ~mixed => videoStatus = s,
             Announce(p, s)
      PROVE  StatusAnnounced'
  <2>1. videoTier = "silo"
    BY <1>5 DEF PoolInv
  <2>2. QED
    BY <1>5, <2>1, LastEvent DEF Announce
<1>6. ASSUME NEW p \in Pipelines, AnnounceReady(p) \/ AnnounceFailed(p) PROVE StatusAnnounced'
  BY <1>5, <1>6 DEF AnnounceReady, AnnounceFailed, ToAnnounce, OutcomeInv
<1>7. ASSUME NEW p \in Pipelines, Throw(p) PROVE StatusAnnounced'
  BY <1>1, <1>7 DEF Throw
<1>8. ASSUME NEW p \in Pipelines, Abandon(p) PROVE StatusAnnounced'
  BY <1>8 DEF Abandon
<1>9. CASE UNCHANGED videoVars
  BY <1>9 DEF videoVars, VideoAtRest
<1>10. QED
  BY <1>2, <1>3, <1>4, <1>6, <1>7, <1>8, <1>9
     DEF VideoNext, PipelineStep, MarkReady, MarkFailed, ToAnnounce

LEMMA PipelineStepKeeps == PipelineIInv /\ [VideoNext]_videoVars => PipelineIInv'
  BY PipelineNextType, NextAlone, NextOutcome, NextAnnounced DEF PipelineIInv

\* The inductive invariant: a pipeline that is not mixed runs alone, and what it
\* is about to announce is the status.
THEOREM PipelineInvariant == VideoSpec => []PipelineIInv
  BY PipelineInitInv, PipelineStepKeeps, PTL DEF VideoSpec

\* At rest the status is the last outcome that was announced, for any number of
\* pipelines that start, throw and overlap, but for what StatusAnnounced excepts.
THEOREM OutcomeIsAnnounced == VideoSpec => []StatusAnnounced
<1>1. PipelineIInv => StatusAnnounced
  BY DEF PipelineIInv
<1>2. QED
  BY PipelineInvariant, <1>1, PTL
-----------------------------------------------------------------------------
(* The audit chain. *)

Hashes == Seq(Nat \X Nat)
Entry == [id : Nat, at : Nat, payload : {0, 1}, prev : Hashes, hash : Hashes]

\* Rows of which created_at tells which is later.
Ordered(S) ==
  /\ S \subseteq Entry
  /\ \A r, s \in S : r.at = s.at => r = s
  /\ \E n \in Nat : \A r \in S : r.at <= n

Newest(r, S) == r \in S /\ \A s \in S : s.at <= r.at

Earlier(r) == {s \in log : Later(r, s)}

\* The row that r is chained to is gone, for good, as ids are not given out again.
LastId(h) == h[Len(h)][1]
Lost(r) == r.prev # Genesis /\ LastId(r.prev) \in usedIds \ {s.id : s \in log}

RowsInv ==
  /\ log \subseteq Entry
  /\ usedIds \subseteq Ids
  /\ damaged \subseteq usedIds
  /\ \A r \in log : r.id \in usedIds /\ r.at < Cardinality(usedIds)
  /\ \A r, s \in log : r.at = s.at \/ r.id = s.id => r = s

\* One append at a time: what it has read of the log is still so.
CallsInv ==
  /\ appendPc \in [Appenders -> {"idle", "head", "insert", "hash"}]
  /\ began \in [Appenders -> Nat]
  /\ prevHash \in [Appenders -> Hashes]
  /\ pendingRow \in [Appenders -> Entry]
  /\ \A c, d \in Appenders : appendPc[c] # "idle" /\ appendPc[d] # "idle" => c = d
  /\ \A c \in Appenders :
       /\ appendPc[c] \in {"head", "insert"} => began[c] = Cardinality(usedIds)
       /\ appendPc[c] = "insert" => prevHash[c] = LastHash(log)
       /\ appendPc[c] = "hash" => /\ Newest(pendingRow[c], log)
                                  /\ pendingRow[c].payload = 0 /\ pendingRow[c].prev = prevHash[c]

\* A row has its hash, or is waiting for the UPDATE that brings it.
HashInv == \A r \in log :
  \/ r.hash = Append(r.prev, <<r.id, 0>>)
  \/ \E c \in Appenders : appendPc[c] = "hash" /\ r = pendingRow[c]

\* A row that is whole is chained to the one before it; a damaged one was altered,
\* or the one it is chained to is gone.
ChainInv == \A r \in log : r.id \notin damaged => r.payload = 0 /\ r.prev = LastHash(Earlier(r))
DamageInv == \A r \in log : r.id \in damaged => r.payload = 1 \/ Lost(r)

LinksInv == RowsInv /\ ChainInv /\ DamageInv

\* As long as no appends overlapped and none was cut.
AuditInv == ~overlapped /\ ~cut => LinksInv /\ CallsInv /\ HashInv

-----------------------------------------------------------------------------
\* What a hash was computed over can be read off it.
LEMMA HashTells ==
  ASSUME NEW h \in Hashes, NEW id \in Nat, NEW x \in Nat
  PROVE  /\ Append(h, <<id, x>>) \in Hashes /\ Append(h, <<id, x>>) # Genesis
         /\ LastId(Append(h, <<id, x>>)) = id
         /\ \A y \in Nat : Append(h, <<id, x>>) = Append(h, <<id, y>>) => x = y
         /\ Append(h, <<id, x>>) = NoHash => id = 0
<1> DEFINE a == Append(h, <<id, x>>)
<1>1. a \in Hashes /\ Len(a) = Len(h) + 1 /\ a[Len(h) + 1] = <<id, x>> /\ Len(h) \in Nat
  BY DEF Hashes
<1>2. a # Genesis
  <2>1. Len(Genesis) = 0
    BY DEF Genesis
  <2>2. Len(a) # 0
    <3> HIDE DEF a
    <3>1. QED
      BY <1>1
  <2>3. QED
    <3> HIDE DEF a
    <3>1. QED
      BY <2>1, <2>2
<1>3. LastId(a) = id
  BY <1>1 DEF LastId
<1>4. ASSUME NEW y \in Nat, a = Append(h, <<id, y>>) PROVE x = y
  <2>1. Append(h, <<id, y>>)[Len(h) + 1] = <<id, y>>
    BY DEF Hashes
  <2>2. QED
    BY <1>1, <1>4, <2>1
<1>5. ASSUME a = NoHash PROVE id = 0
  <2>1. LastId(NoHash) = 0
    BY DEF LastId, NoHash
  <2>2. QED
    BY <1>3, <1>5, <2>1
<1>6. QED
  BY <1>1, <1>2, <1>3, <1>4, <1>5

LEMMA NewestIsThere ==
  ASSUME NEW S, Ordered(S), S # {}
  PROVE  \E r \in S : Newest(r, S)
<1>1. PICK n \in Nat : \A r \in S : r.at <= n
  BY DEF Ordered
<1> DEFINE T == {k \in Nat : \E r \in S : k = n - r.at}
           R == OpToRel(<, Nat)
<1>2. T \subseteq Nat /\ T # {}
  <2>1. PICK r \in S : TRUE
    OBVIOUS
  <2>2. n - r.at \in Nat
    BY <1>1, <2>1 DEF Ordered, Entry
  <2>3. QED
    BY <2>1, <2>2
<1>3. \E k \in T : \A y \in T : ~(<<y, k>> \in R)
  <2>1. IsWellFoundedOn(R, Nat)
    BY NatLessThanWellFounded
  <2> HIDE DEF T, R
  <2>2. QED
    BY <1>2, <2>1, WFMin
<1>4. PICK k \in T : \A y \in T : ~(<<y, k>> \in R)
  BY <1>3
<1>5. \A y \in T : ~(y < k)
  BY <1>2, <1>4 DEF OpToRel
<1>6. PICK r \in S : k = n - r.at
  BY <1>4
<1>7. ASSUME NEW s \in S PROVE s.at <= r.at
  <2>1. n - s.at \in T /\ s.at \in Nat /\ r.at \in Nat
    BY <1>1 DEF Ordered, Entry
  <2>2. ~(n - s.at < k)
    <3> HIDE DEF T
    <3>1. QED
      BY <1>5, <2>1
  <2>3. QED
    BY <1>6, <2>1, <2>2
<1>8. QED
  BY <1>6, <1>7 DEF Newest

LEMMA NewestHash ==
  ASSUME NEW S, Ordered(S), NEW r, Newest(r, S)
  PROVE  LastHash(S) = r.hash
<1>1. IsLast(r, S)
  BY DEF Ordered, Newest, IsLast, Later, Entry
<1>2. ASSUME NEW s \in S, IsLast(s, S) PROVE s = r
  BY <1>2 DEF Ordered, Newest, IsLast, Later, Entry
<1>3. (CHOOSE s \in S : IsLast(s, S)) = r
  BY <1>1, <1>2 DEF Newest
<1>4. QED
  BY <1>3 DEF LastHash, Newest

LEMMA OrderedSubset ==
  ASSUME NEW S, Ordered(S), NEW T \in SUBSET S
  PROVE  Ordered(T)
  BY DEF Ordered

\* A set is as good as another with rows of the same age and hash.
LEMMA SameHash ==
  ASSUME NEW S, NEW T, Ordered(S), Ordered(T), NEW r, NEW s,
         Newest(r, S), Newest(s, T), r.hash = s.hash
  PROVE  LastHash(S) = LastHash(T)
  BY NewestHash

LEMMA LastHashType ==
  ASSUME NEW S, Ordered(S)
  PROVE  LastHash(S) \in Hashes
<1>1. CASE S = {}
  BY <1>1 DEF LastHash, Genesis, Hashes
<1>2. CASE S # {}
  <2>1. PICK r \in S : Newest(r, S)
    BY <1>2, NewestIsThere
  <2>2. QED
    BY <2>1, NewestHash DEF Ordered, Entry
<1>3. QED
  BY <1>1, <1>2

LEMMA UsedIdsAreFinite ==
  ASSUME RowsInv
  PROVE  IsFiniteSet(usedIds) /\ Cardinality(usedIds) \in Nat
<1>1. IsFiniteSet(Ids)
  BY AuditAssumption, FS_Interval DEF Ids
<1>2. QED
  BY <1>1, FS_Subset, FS_CardinalityType DEF RowsInv

LEMMA LogIsOrdered ==
  ASSUME RowsInv
  PROVE  Ordered(log) /\ \A r, s \in log : Later(r, s) <=> r.at > s.at
<1>1. Ordered(log)
  BY UsedIdsAreFinite DEF RowsInv, Ordered, Entry
<1>2. QED
  BY <1>1 DEF RowsInv, Later, Entry

-----------------------------------------------------------------------------
LEMMA AuditInitInv == AuditInit => AuditInv
<1> SUFFICES ASSUME AuditInit PROVE AuditInv
  OBVIOUS
<1>1. LinksInv
  BY DEF AuditInit, LinksInv, RowsInv, ChainInv, DamageInv
<1>2. NoEntry \in Entry /\ Genesis \in Hashes
  BY DEF NoEntry, Entry, Hashes, Genesis, NoHash
<1>3. CallsInv /\ HashInv
  BY <1>2 DEF AuditInit, CallsInv, HashInv
<1>4. QED
  BY <1>1, <1>3 DEF AuditInv

\* A row that is later than all, chained to the head, keeps the chain.
LEMMA AddRow ==
  ASSUME LinksInv, NEW id \in Ids \ usedIds, NEW row \in Entry,
         row.id = id, row.at = Cardinality(usedIds), row.payload = 0, row.prev = LastHash(log),
         usedIds' = usedIds \union {id}, log' = log \union {row}, damaged' = damaged
  PROVE  LinksInv' /\ Newest(row, log')
<1> USE DEF LinksInv
<1>1. Cardinality(usedIds') = Cardinality(usedIds) + 1 /\ Cardinality(usedIds) \in Nat
  BY UsedIdsAreFinite, FS_AddElement
<1>2. \A r \in log : r.at < row.at /\ r.id # id /\ r.at \in Nat
  BY DEF RowsInv, Entry
<1>3. RowsInv'
  BY <1>1, <1>2 DEF RowsInv
<1>4. \A r \in log : ~Later(r, row) /\ Later(row, r)
  BY <1>1, <1>2 DEF Later
<1>5. ASSUME NEW r \in log PROVE Earlier(r)' = Earlier(r)
  BY <1>4 DEF Earlier
<1>6. Earlier(row)' = log
  <2>1. ~Later(row, row)
    BY DEF Later, Entry
  <2>2. Earlier(row)' = {s \in log \union {row} : Later(row, s)}
    BY DEF Earlier
  <2>3. QED
    BY <1>4, <2>1, <2>2
<1>7. ChainInv'
  <2>1. ASSUME NEW r \in log, r.id \notin damaged PROVE r.payload = 0 /\ r.prev = LastHash(Earlier(r)')
    BY <1>5, <2>1 DEF ChainInv
  <2>2. \A r \in log' : r.id \notin damaged' => r.payload = 0 /\ r.prev = LastHash(Earlier(r)')
    BY <1>6, <2>1
  <2>3. QED
    BY <2>2 DEF ChainInv
<1>8. DamageInv'
  <2>1. id \notin damaged
    BY DEF RowsInv
  <2>2. ASSUME NEW r \in log, Lost(r) PROVE Lost(r)'
    BY <2>2 DEF Lost
  <2>3. QED
    BY <2>1, <2>2 DEF DamageInv
<1>9. QED
  BY <1>1, <1>2, <1>3, <1>7, <1>8 DEF Newest, Entry

\* An append that ends leaves all calls idle.
LEMMA AppendEnds ==
  ASSUME CallsInv, NEW c \in Appenders, appendPc[c] # "idle", EndAppend(c)
  PROVE  CallsInv' /\ \A d \in Appenders : appendPc'[d] = "idle"
<1>1. \A d \in Appenders \ {c} : appendPc[d] = "idle"
  BY DEF CallsInv
<1>2. \A d \in Appenders : appendPc'[d] = "idle"
  BY <1>1 DEF EndAppend, CallsInv
<1>3. NoEntry \in Entry /\ Genesis \in Hashes
  BY DEF NoEntry, Entry, Hashes, Genesis, NoHash
<1>4. /\ appendPc' \in [Appenders -> {"idle", "head", "insert", "hash"}]
      /\ began' \in [Appenders -> Nat] /\ prevHash' \in [Appenders -> Hashes]
      /\ pendingRow' \in [Appenders -> Entry]
  BY <1>3 DEF CallsInv, EndAppend
<1>5. QED
  BY <1>2, <1>4 DEF CallsInv

\* What a step that leaves the log may do to the calls.
LEMMA SameLog ==
  ASSUME LinksInv, HashInv, UNCHANGED <<log, usedIds, damaged>>,
         \A c \in Appenders : appendPc[c] = "hash" => appendPc'[c] = "hash" /\ pendingRow'[c] = pendingRow[c]
  PROVE  LinksInv' /\ HashInv'
<1>1. RowsInv'
  BY DEF LinksInv, RowsInv
<1>2. ChainInv'
  BY DEF LinksInv, ChainInv, Earlier
<1>3. DamageInv'
  BY DEF LinksInv, DamageInv, Lost
<1>4. HashInv'
  BY DEF HashInv
<1>5. QED
  BY <1>1, <1>2, <1>3, <1>4 DEF LinksInv

\* The only row without a hash is the one of the call that is about to write it.
LEMMA OthersAreHashed ==
  ASSUME LinksInv, CallsInv, HashInv, NEW c \in Appenders, appendPc[c] # "idle"
  PROVE  \A r \in log : r.hash = Append(r.prev, <<r.id, 0>>) \/ (appendPc[c] = "hash" /\ r = pendingRow[c])
  BY DEF CallsInv, HashInv

LEMMA AppendBegins ==
  ASSUME LinksInv, CallsInv, HashInv, NEW c \in Appenders, BeginAppend(c), ~overlapped'
  PROVE  LinksInv' /\ CallsInv' /\ HashInv'
<1>1. /\ UNCHANGED <<log, usedIds, prevHash, pendingRow, damaged>>
      /\ appendPc' = [appendPc EXCEPT ![c] = "head"]
      /\ began' = [began EXCEPT ![c] = Cardinality(usedIds)]
      /\ \A d \in Appenders : appendPc[d] = "idle"
  BY DEF BeginAppend, Quiet
<1>2. Cardinality(usedIds) \in Nat
  BY UsedIdsAreFinite DEF LinksInv
<1>3. CallsInv'
  BY <1>1, <1>2 DEF CallsInv
<1>4. QED
  BY <1>1, <1>3, SameLog

LEMMA HeadIsRead ==
  ASSUME LinksInv, CallsInv, HashInv, NEW c \in Appenders, ReadHead(c)
  PROVE  LinksInv' /\ CallsInv' /\ HashInv'
<1>1. /\ appendPc[c] = "head" /\ appendPc' = [appendPc EXCEPT ![c] = "insert"]
      /\ prevHash' = [prevHash EXCEPT ![c] = LastHash({r \in log : r.hash # NoHash})]
      /\ UNCHANGED <<log, usedIds, began, pendingRow, damaged>>
  BY DEF ReadHead
<1>2. {r \in log : r.hash # NoHash} = log
  <2>1. ASSUME NEW r \in log PROVE r.hash # NoHash
    <3>1. r.hash = Append(r.prev, <<r.id, 0>>)
      BY <1>1, OthersAreHashed
    <3>2. r.id \in Nat /\ r.id # 0 /\ r.prev \in Hashes
      BY DEF LinksInv, RowsInv, Entry, Ids
    <3>3. Append(r.prev, <<r.id, 0>>) # NoHash
      <4>1. 0 \in Nat
        OBVIOUS
      <4>2. QED
        BY <3>2, <4>1, HashTells
    <3>4. QED
      BY <3>1, <3>3
  <2>2. QED
    BY <2>1
<1>3. LastHash(log) \in Hashes
  BY LogIsOrdered, LastHashType DEF LinksInv
<1>4. \A d \in Appenders \ {c} : appendPc[d] = "idle" /\ appendPc'[d] = "idle"
  BY <1>1 DEF CallsInv
<1>5. CallsInv'
  <2>1. /\ appendPc' \in [Appenders -> {"idle", "head", "insert", "hash"}] /\ appendPc'[c] = "insert"
        /\ prevHash' \in [Appenders -> Hashes] /\ prevHash'[c] = LastHash(log)
    BY <1>1, <1>2, <1>3 DEF CallsInv
  <2>2. QED
    BY <1>1, <1>4, <2>1 DEF CallsInv
<1>6. QED
  BY <1>1, <1>4, <1>5, SameLog

LEMMA AppendFailed ==
  ASSUME LinksInv, CallsInv, HashInv, NEW c \in Appenders, AppendFails(c), ~cut'
  PROVE  LinksInv' /\ CallsInv' /\ HashInv'
<1>1. /\ appendPc[c] # "idle" /\ appendPc[c] # "hash" /\ EndAppend(c)
      /\ UNCHANGED <<log, usedIds, damaged>>
  BY DEF AppendFails
<1>2. CallsInv'
  BY <1>1, AppendEnds
<1>3. \A d \in Appenders : appendPc[d] # "hash"
  BY <1>1 DEF CallsInv
<1>4. QED
  BY <1>1, <1>2, <1>3, SameLog

LEMMA RowIsInserted ==
  ASSUME LinksInv, CallsInv, HashInv, NEW c \in Appenders, InsertRow(c)
  PROVE  LinksInv' /\ CallsInv' /\ HashInv'
<1>1. PICK id \in Ids \ usedIds :
        /\ usedIds' = usedIds \union {id}
        /\ \/ /\ log' = log \union {[NewRow(c, id, began[c]) EXCEPT !.hash =
                                       RowHash(prevHash[c], NewRow(c, id, began[c]))]}
              /\ EndAppend(c)
           \/ /\ log' = log \union {NewRow(c, id, Cardinality(usedIds))}
              /\ pendingRow' = [pendingRow EXCEPT ![c] = NewRow(c, id, Cardinality(usedIds))]
              /\ appendPc' = [appendPc EXCEPT ![c] = "hash"]
              /\ UNCHANGED <<began, prevHash>>
  BY DEF InsertRow
<1>2. /\ appendPc[c] = "insert" /\ damaged' = damaged
      /\ began[c] = Cardinality(usedIds) /\ prevHash[c] = LastHash(log) /\ prevHash[c] \in Hashes
      /\ Cardinality(usedIds) \in Nat /\ id \in Nat
      /\ \A d \in Appenders \ {c} : appendPc[d] = "idle"
  BY UsedIdsAreFinite DEF InsertRow, CallsInv, LinksInv, Ids
<1> DEFINE bare == [id |-> id, at |-> Cardinality(usedIds), payload |-> 0, prev |-> prevHash[c], hash |-> NoHash]
           full == [id |-> id, at |-> Cardinality(usedIds), payload |-> 0, prev |-> prevHash[c],
                    hash |-> Append(prevHash[c], <<id, 0>>)]
<1>3. NewRow(c, id, Cardinality(usedIds)) = bare
  BY DEF NewRow
<1>4. [bare EXCEPT !.hash = RowHash(prevHash[c], bare)] = full
  <2>1. RowHash(prevHash[c], bare) = Append(prevHash[c], <<id, 0>>)
    BY DEF RowHash
  <2> DEFINE h == Append(prevHash[c], <<id, 0>>)
  <2>2. [bare EXCEPT !.hash = h] =
          [id |-> id, at |-> Cardinality(usedIds), payload |-> 0, prev |-> prevHash[c], hash |-> h]
    <3> HIDE DEF h
    <3>1. QED
      OBVIOUS
  <2>3. QED
    BY <2>1, <2>2
<1>5. bare \in Entry /\ full \in Entry
  <2>1. NoHash \in Hashes /\ Append(prevHash[c], <<id, 0>>) \in Hashes
    BY <1>2, HashTells DEF Hashes, NoHash
  <2>2. QED
    BY <1>2, <2>1 DEF Entry
<1>6. \A r \in log : r.hash = Append(r.prev, <<r.id, 0>>)
  BY <1>2, OthersAreHashed
<1>7. CASE log' = log \union {full} /\ EndAppend(c)
  <2>1. LinksInv'
    BY <1>1, <1>2, <1>5, <1>7, AddRow
  <2>2. CallsInv'
    BY <1>2, <1>7, AppendEnds
  <2>3. HashInv'
    BY <1>6, <1>7 DEF HashInv
  <2>4. QED
    BY <2>1, <2>2, <2>3
<1>8. CASE /\ log' = log \union {bare}
           /\ pendingRow' = [pendingRow EXCEPT ![c] = bare]
           /\ appendPc' = [appendPc EXCEPT ![c] = "hash"]
           /\ UNCHANGED <<began, prevHash>>
  <2>1. LinksInv' /\ Newest(bare, log')
    BY <1>1, <1>2, <1>5, <1>8, AddRow
  <2>2. /\ appendPc' \in [Appenders -> {"idle", "head", "insert", "hash"}]
        /\ pendingRow' \in [Appenders -> Entry]
        /\ appendPc'[c] = "hash" /\ pendingRow'[c] = bare
        /\ \A d \in Appenders \ {c} : appendPc'[d] = "idle"
    BY <1>2, <1>5, <1>8 DEF CallsInv
  <2>3. bare.payload = 0 /\ bare.prev = prevHash[c]
    OBVIOUS
  <2> HIDE DEF bare
  <2>4. CallsInv'
    BY <1>8, <2>1, <2>2, <2>3 DEF CallsInv
  <2>5. HashInv'
    BY <1>6, <1>8, <2>2 DEF HashInv
  <2>6. QED
    BY <2>1, <2>4, <2>5
<1>9. QED
  BY <1>1, <1>2, <1>3, <1>4, <1>7, <1>8

\* Another content or another hash in the place of a row.
LEMMA RowIsReplaced ==
  ASSUME RowsInv, NEW p \in log, NEW q \in Entry, q.id = p.id, q.at = p.at,
         log' = (log \ {p}) \union {q}, usedIds' = usedIds, damaged' \subseteq usedIds
  PROVE  /\ RowsInv'
         /\ \A r \in log \ {p} : ~Later(r, p) => Earlier(r)' = Earlier(r)
         /\ Earlier(q)' = Earlier(p)
         /\ \A r \in log : Lost(r) => Lost(r)'
         /\ q.prev = p.prev => (Lost(p) => Lost(q)')
<1>1. RowsInv'
  BY DEF RowsInv
<1>2. \A r \in log : (Later(r, p) <=> Later(r, q)) /\ (Later(p, r) <=> Later(q, r))
  BY DEF Later
<1>3. \A r \in log \ {p} : ~Later(r, p) => Earlier(r)' = Earlier(r)
  BY <1>2 DEF Earlier
<1>4. Earlier(q)' = Earlier(p)
  <2>1. ~Later(p, p) /\ ~Later(q, q)
    BY DEF Later, RowsInv, Entry
  <2>2. Earlier(q)' = {s \in log' : Later(q, s)}
    BY DEF Earlier
  <2>3. QED
    BY <1>2, <2>1, <2>2 DEF Earlier
<1>5. {s.id : s \in log}' = {s.id : s \in log}
  OBVIOUS
<1>6. QED
  BY <1>1, <1>3, <1>4, <1>5 DEF Lost

LEMMA ReplacedInOrder ==
  ASSUME NEW S, Ordered(S), NEW p \in S, NEW q \in Entry, q.at = p.at, q.hash = p.hash
  PROVE  LastHash((S \ {p}) \union {q}) = LastHash(S)
<1> DEFINE T == (S \ {p}) \union {q}
<1>1. Ordered(T)
  <2>1. PICK n \in Nat : \A r \in S : r.at <= n
    BY DEF Ordered
  <2>2. \A r \in T : r.at <= n
    BY <2>1
  <2>3. T \subseteq Entry /\ \A r, s \in T : r.at = s.at => r = s
    BY DEF Ordered
  <2> HIDE DEF T
  <2>4. QED
    BY <2>2, <2>3 DEF Ordered
<1>2. PICK r \in S : Newest(r, S)
  BY NewestIsThere
<1>3. CASE r = p
  <2>1. Newest(q, T)
    BY <1>2, <1>3 DEF Newest
  <2>2. QED
    BY <1>1, <1>2, <1>3, <2>1, SameHash
<1>4. CASE r # p
  <2>1. Newest(r, T)
    BY <1>2, <1>4 DEF Newest
  <2>2. QED
    BY <1>1, <1>2, <2>1, SameHash
<1>5. QED
  BY <1>3, <1>4

LEMMA HashIsWritten ==
  ASSUME LinksInv, CallsInv, HashInv, NEW c \in Appenders, WriteHash(c)
  PROVE  LinksInv' /\ CallsInv' /\ HashInv'
<1>1. appendPc[c] = "hash" /\ EndAppend(c) /\ usedIds' = usedIds /\ damaged' = damaged
  BY DEF WriteHash
<1>2. PICK p \in log : p = pendingRow[c] /\ Newest(p, log) /\ p.payload = 0 /\ p.prev = prevHash[c]
  BY <1>1 DEF CallsInv, Newest
<1>3. p \in Entry
  BY DEF LinksInv, RowsInv
<1>4. PICK q \in Entry :
        /\ q = [p EXCEPT !.hash = Append(p.prev, <<p.id, 0>>)]
        /\ q.id = p.id /\ q.at = p.at /\ q.prev = p.prev /\ q.payload = 0
        /\ q.hash = Append(q.prev, <<q.id, 0>>)
  <2>1. Append(p.prev, <<p.id, 0>>) \in Hashes
    BY <1>3, HashTells DEF Entry
  <2> DEFINE h == Append(p.prev, <<p.id, 0>>)
             row == [p EXCEPT !.hash = h]
  <2>2. h \in Hashes
    BY <2>1
  <2>3. /\ row \in Entry /\ row.hash = h
        /\ row.id = p.id /\ row.at = p.at /\ row.prev = p.prev /\ row.payload = 0
    <3> HIDE DEF h
    <3>1. QED
      BY <1>2, <1>3, <2>2 DEF Entry
  <2>4. row.hash = Append(row.prev, <<row.id, 0>>)
    BY <2>3
  <2>5. row = [p EXCEPT !.hash = Append(p.prev, <<p.id, 0>>)]
    OBVIOUS
  <2> HIDE DEF row
  <2>6. QED
    BY <2>3, <2>4, <2>5
<1>0. log' = {IF r.id = p.id THEN q ELSE r : r \in log}
  <2>1. RowHash(prevHash[c], p) = Append(p.prev, <<p.id, 0>>)
    BY <1>2 DEF RowHash
  <2>2. \A r \in log : r.id = p.id => r = p
    BY DEF LinksInv, RowsInv
  <2>3. log' = {IF r.id = p.id THEN [r EXCEPT !.hash = RowHash(prevHash[c], p)] ELSE r : r \in log}
    BY <1>2 DEF WriteHash
  <2>4. QED
    BY <1>4, <2>1, <2>2, <2>3
<1>5. \A r \in log : r.id = p.id <=> r = p
  BY DEF LinksInv, RowsInv
<1>6. log' = (log \ {p}) \union {q}
  BY <1>0, <1>5
<1>7. RowsInv /\ damaged' \subseteq usedIds
  BY <1>1 DEF LinksInv, RowsInv
<1>8. /\ RowsInv'
      /\ \A r \in log \ {p} : ~Later(r, p) => Earlier(r)' = Earlier(r)
      /\ Earlier(q)' = Earlier(p)
      /\ \A r \in log : Lost(r) => Lost(r)'
      /\ Lost(p) => Lost(q)'
  BY <1>1, <1>4, <1>6, <1>7, RowIsReplaced
<1>9. \A r \in log : ~Later(r, p)
  BY <1>2, <1>7, LogIsOrdered DEF Newest, RowsInv, Entry
<1>11. ChainInv'
  <2>1. \A r \in log \ {p} : r.id \notin damaged => r.payload = 0 /\ r.prev = LastHash(Earlier(r)')
    BY <1>8, <1>9 DEF LinksInv, ChainInv
  <2>2. q.id \notin damaged => q.prev = LastHash(Earlier(q)')
    BY <1>4, <1>8 DEF LinksInv, ChainInv
  <2>3. \A r \in log' : r.id \notin damaged' => r.payload = 0 /\ r.prev = LastHash(Earlier(r)')
    BY <1>1, <1>4, <1>6, <2>1, <2>2
  <2>4. QED
    BY <2>3 DEF ChainInv
<1>12. DamageInv'
  <2>1. q.id \in damaged => Lost(p)
    BY <1>2, <1>4 DEF LinksInv, DamageInv
  <2>2. QED
    BY <1>1, <1>6, <1>8, <2>1 DEF LinksInv, DamageInv
<1>13. HashInv'
  <2>1. \A r \in log \ {p} : r.hash = Append(r.prev, <<r.id, 0>>)
    BY <1>1, <1>2, OthersAreHashed
  <2>2. QED
    BY <1>4, <1>6, <2>1 DEF HashInv
<1>14. CallsInv'
  BY <1>1, AppendEnds
<1>15. QED
  BY <1>8, <1>11, <1>12, <1>13, <1>14 DEF LinksInv

\* At rest every row has its hash, and nothing waits.
LEMMA AtRest ==
  ASSUME CallsInv, HashInv, Quiet
  PROVE  \A r \in log : r.hash = Append(r.prev, <<r.id, 0>>)
  BY DEF CallsInv, HashInv, Quiet

LEMMA RowIsAltered ==
  ASSUME LinksInv, CallsInv, HashInv, NEW p \in log, Alter(p)
  PROVE  LinksInv' /\ CallsInv' /\ HashInv'
<1> DEFINE q == [id |-> p.id, at |-> p.at, payload |-> 1, prev |-> p.prev, hash |-> p.hash]
<1>1. /\ Quiet /\ damaged' = damaged \union {p.id} /\ UNCHANGED usedIds
      /\ UNCHANGED <<appendPc, began, prevHash, pendingRow>>
      /\ log' = (log \ {p}) \union {[p EXCEPT !.payload = 1]}
  BY DEF Alter, callLocals
<1>2. RowsInv /\ p \in Entry
  BY DEF LinksInv, RowsInv
<1>3. /\ q \in Entry /\ q.id = p.id /\ q.at = p.at /\ q.prev = p.prev /\ q.hash = p.hash /\ q.payload = 1
      /\ [p EXCEPT !.payload = 1] = q
  BY <1>2 DEF Entry
<1> HIDE DEF q
<1>4. log' = (log \ {p}) \union {q} /\ damaged' \subseteq usedIds
  BY <1>1, <1>2, <1>3 DEF RowsInv
<1>5. /\ RowsInv'
      /\ \A r \in log \ {p} : ~Later(r, p) => Earlier(r)' = Earlier(r)
      /\ \A r \in log : Lost(r) => Lost(r)'
  BY <1>1, <1>2, <1>3, <1>4, RowIsReplaced
<1>6. ChainInv'
  <2>1. ASSUME NEW r \in log \ {p}, r.id \notin damaged
        PROVE  r.payload = 0 /\ r.prev = LastHash(Earlier(r)')
    <3>1. r.payload = 0 /\ r.prev = LastHash(Earlier(r))
      BY <2>1 DEF LinksInv, ChainInv
    <3>2. ASSUME Later(r, p) PROVE LastHash(Earlier(r)') = LastHash(Earlier(r))
      <4>1. Earlier(r) \subseteq log /\ p \in Earlier(r)
        BY <3>2 DEF Earlier
      <4>2. Ordered(Earlier(r))
        BY <1>2, <4>1, LogIsOrdered, OrderedSubset
      <4>3. Later(r, q)
        BY <1>3, <3>2 DEF Later
      <4>4. Earlier(r)' = (Earlier(r) \ {p}) \union {q}
        BY <1>4, <4>3 DEF Earlier
      <4>5. QED
        BY <1>3, <4>1, <4>2, <4>4, ReplacedInOrder
    <3>3. QED
      BY <1>5, <3>1, <3>2
  <2>2. \A r \in log' : r.id \notin damaged' => r.payload = 0 /\ r.prev = LastHash(Earlier(r)')
    BY <1>1, <1>3, <1>4, <2>1
  <2>3. QED
    BY <2>2 DEF ChainInv
<1>7. DamageInv'
  <2>1. ASSUME NEW r \in log \ {p}, r.id \in damaged' PROVE r.payload = 1 \/ Lost(r)'
    <3>1. r.id \in damaged
      BY <1>1, <1>2, <2>1 DEF RowsInv
    <3>2. QED
      BY <1>5, <3>1 DEF LinksInv, DamageInv
  <2>2. QED
    BY <1>3, <1>4, <2>1 DEF DamageInv
<1>8. HashInv'
  <2>1. \A r \in log : r.hash = Append(r.prev, <<r.id, 0>>)
    BY <1>1, AtRest
  <2>2. \A r \in log' : r.hash = Append(r.prev, <<r.id, 0>>)
    BY <1>3, <1>4, <2>1
  <2>3. QED
    BY <2>2 DEF HashInv
<1>9. CallsInv'
  BY <1>1 DEF CallsInv, Quiet
<1>10. QED
  BY <1>5, <1>6, <1>7, <1>8, <1>9 DEF LinksInv

LEMMA RowIsRemoved ==
  ASSUME LinksInv, CallsInv, HashInv, NEW p \in log, Remove(p)
  PROVE  LinksInv' /\ CallsInv' /\ HashInv'
<1> DEFINE next == {s \in log : Later(s, p) /\ \A u \in log : Later(u, p) => u = s \/ Later(u, s)}
<1>1. /\ Quiet /\ damaged' = damaged \union {s.id : s \in next} /\ UNCHANGED usedIds
      /\ UNCHANGED <<appendPc, began, prevHash, pendingRow>>
      /\ log' = log \ {p}
  BY DEF Remove, callLocals
<1>2. RowsInv /\ \A r, s \in log : Later(r, s) <=> r.at > s.at
  BY LogIsOrdered DEF LinksInv
<1>3. \A r \in log : r \in Entry /\ r.at \in Nat /\ r.id \in Nat /\ r.prev \in Hashes
  BY <1>2 DEF RowsInv, Entry
<1>4. next \subseteq log
  OBVIOUS
<1>5. ASSUME NEW r \in next PROVE Newest(p, Earlier(r))
  <2>1. ASSUME NEW s \in Earlier(r), s.at > p.at PROVE FALSE
    <3>1. s \in log /\ s.at < r.at
      BY <1>2, <1>3 DEF Earlier
    <3>2. s = r \/ s.at > r.at
      BY <1>2, <2>1, <3>1
    <3>3. QED
      BY <1>3, <1>4, <3>1, <3>2
  <2>2. p \in Earlier(r)
    BY DEF Earlier
  <2>3. \A s \in Earlier(r) : s.at \in Nat
    BY <1>3 DEF Earlier
  <2>4. p.at \in Nat
    BY <1>3
  <2> HIDE DEF next
  <2>5. QED
    BY <2>1, <2>2, <2>3, <2>4 DEF Newest
<1>6. ASSUME NEW r \in log \ next, Later(r, p)
      PROVE  \E u \in Earlier(r) : u.at > p.at
  <2>1. PICK u \in log : Later(u, p) /\ u # r /\ ~Later(u, r)
    BY <1>6
  <2>2. u.at > p.at /\ ~(u.at > r.at) /\ u.at # r.at
    BY <1>2, <2>1 DEF RowsInv
  <2>3. r.at > u.at
    BY <1>3, <2>2
  <2>4. u \in Earlier(r)
    BY <1>2, <2>3 DEF Earlier
  <2>5. QED
    BY <2>2, <2>4
<1> HIDE DEF next
<1>7. RowsInv'
  BY <1>1, <1>2, <1>4 DEF RowsInv
<1>8. ASSUME NEW r \in log \ {p} PROVE Earlier(r)' = Earlier(r) \ {p}
  BY <1>1 DEF Earlier
<1>9. ASSUME NEW r \in log PROVE Earlier(r) \subseteq log /\ Ordered(Earlier(r))
  <2>1. Earlier(r) \subseteq log
    BY DEF Earlier
  <2>2. QED
    BY <1>2, <2>1, LogIsOrdered, OrderedSubset
<1>10. ChainInv'
  <2>1. ASSUME NEW r \in log \ {p}, r.id \notin damaged'
        PROVE  r.payload = 0 /\ r.prev = LastHash(Earlier(r)')
    <3>1. r \notin next /\ r.payload = 0 /\ r.prev = LastHash(Earlier(r))
      BY <1>1, <2>1 DEF LinksInv, ChainInv
    <3>2. CASE ~Later(r, p)
      <4>1. Earlier(r)' = Earlier(r)
        BY <1>8, <3>2 DEF Earlier
      <4>2. QED
        BY <3>1, <4>1
    <3>3. CASE Later(r, p)
      <4>1. PICK u \in Earlier(r) : u.at > p.at
        BY <1>6, <3>1, <3>3
      <4>2. PICK x \in Earlier(r) : Newest(x, Earlier(r))
        BY <1>9, <4>1, NewestIsThere
      <4>3. x # p
        <5>1. u.at <= x.at /\ u.at \in Nat /\ p.at \in Nat
          BY <1>3, <1>9, <4>2 DEF Newest
        <5>2. QED
          BY <4>1, <5>1
      <4>4. Newest(x, Earlier(r)')
        BY <1>8, <4>2, <4>3 DEF Newest
      <4>5. Ordered(Earlier(r)')
        BY <1>8, <1>9, OrderedSubset
      <4>6. LastHash(Earlier(r)') = LastHash(Earlier(r))
        BY <1>9, <4>2, <4>4, <4>5, NewestHash
      <4>7. QED
        BY <3>1, <4>6
    <3>4. QED
      BY <3>2, <3>3
  <2>2. \A r \in log' : r.id \notin damaged' => r.payload = 0 /\ r.prev = LastHash(Earlier(r)')
    BY <1>1, <2>1
  <2>3. QED
    BY <2>2 DEF ChainInv
<1>11. DamageInv'
  <2>1. ASSUME NEW r \in log \ {p}, Lost(r) PROVE Lost(r)'
    BY <1>1, <2>1 DEF Lost
  <2>2. ASSUME NEW r \in log \ {p}, r \in next, r.id \notin damaged PROVE Lost(r)'
    <3>1. r.prev = p.hash
      <4>1. r.prev = LastHash(Earlier(r))
        BY <2>2 DEF LinksInv, ChainInv
      <4>2. QED
        BY <1>5, <1>9, <2>2, <4>1, NewestHash
    <3>2. p.hash = Append(p.prev, <<p.id, 0>>)
      BY <1>1, AtRest
    <3>3. r.prev # Genesis /\ LastId(r.prev) = p.id
      <4>1. p.prev \in Hashes /\ p.id \in Nat /\ 0 \in Nat
        BY <1>3
      <4>2. Append(p.prev, <<p.id, 0>>) # Genesis /\ LastId(Append(p.prev, <<p.id, 0>>)) = p.id
        BY <4>1, HashTells
      <4>3. QED
        BY <3>1, <3>2, <4>2
    <3>4. p.id \in usedIds /\ \A s \in log \ {p} : s.id # p.id
      BY <1>2 DEF RowsInv
    <3>5. QED
      BY <1>1, <3>3, <3>4 DEF Lost
  <2>3. ASSUME NEW r \in log \ {p}, r.id \in damaged' PROVE r.payload = 1 \/ Lost(r)'
    <3>1. r.id \in damaged \/ r \in next
      BY <1>1, <1>2, <1>4, <2>3 DEF RowsInv
    <3>2. QED
      BY <2>1, <2>2, <3>1 DEF LinksInv, DamageInv
  <2>4. QED
    BY <1>1, <2>3 DEF DamageInv
<1>12. HashInv'
  BY <1>1, AtRest DEF HashInv
<1>13. CallsInv'
  BY <1>1 DEF CallsInv, Quiet
<1>14. QED
  BY <1>7, <1>10, <1>11, <1>12, <1>13 DEF LinksInv

LEMMA AuditStep ==
  ASSUME AuditInv, [AuditNext]_auditVars
  PROVE  AuditInv'
<1> SUFFICES ASSUME ~overlapped', ~cut' PROVE LinksInv' /\ CallsInv' /\ HashInv'
  BY DEF AuditInv
<1>1. ~overlapped /\ ~cut
  <2>1. ASSUME NEW c \in Appenders,
               BeginAppend(c) \/ ReadHead(c) \/ InsertRow(c) \/ WriteHash(c) \/ AppendFails(c)
        PROVE  ~overlapped /\ ~cut
    <3>1. CASE BeginAppend(c)
      BY <3>1 DEF BeginAppend
    <3>2. CASE ReadHead(c)
      BY <3>2 DEF ReadHead
    <3>3. CASE InsertRow(c)
      BY <3>3 DEF InsertRow
    <3>4. CASE WriteHash(c)
      BY <3>4 DEF WriteHash
    <3>5. CASE AppendFails(c)
      BY <3>5 DEF AppendFails
    <3>6. QED
      BY <2>1, <3>1, <3>2, <3>3, <3>4, <3>5
  <2>2. ASSUME NEW r \in log, Alter(r) \/ Remove(r) PROVE ~overlapped /\ ~cut
    BY <2>2 DEF Alter, Remove
  <2>3. CASE UNCHANGED auditVars
    BY <2>3 DEF auditVars
  <2>4. QED
    BY <2>1, <2>2, <2>3 DEF AuditNext
<1>2. LinksInv /\ CallsInv /\ HashInv
  BY <1>1 DEF AuditInv
<1>3. ASSUME NEW c \in Appenders,
             BeginAppend(c) \/ ReadHead(c) \/ InsertRow(c) \/ WriteHash(c) \/ AppendFails(c)
      PROVE  LinksInv' /\ CallsInv' /\ HashInv'
  BY <1>2, <1>3, AppendBegins, HeadIsRead, RowIsInserted, HashIsWritten, AppendFailed
<1>4. ASSUME NEW r \in log, Alter(r) \/ Remove(r)
      PROVE  LinksInv' /\ CallsInv' /\ HashInv'
  BY <1>2, <1>4, RowIsAltered, RowIsRemoved
<1>5. CASE UNCHANGED auditVars
  <2>1. UNCHANGED <<log, usedIds, damaged, appendPc, began, prevHash, pendingRow>>
    BY <1>5 DEF auditVars, callLocals
  <2>2. CallsInv'
    BY <1>2, <2>1 DEF CallsInv
  <2>3. QED
    BY <1>2, <2>1, <2>2, SameLog
<1>6. QED
  BY <1>3, <1>4, <1>5 DEF AuditNext

\* The inductive invariant of the chain, as long as no appends overlapped and none
\* was cut: a row that is whole is chained to the one before it, and a damaged one
\* was altered or is chained to a row that is gone.
THEOREM AuditInvariant == AuditSpec => []AuditInv
  BY AuditInitInv, AuditStep, PTL DEF AuditSpec

\* verify reports a break exactly when a row was altered or lost the row before it,
\* for any number of rows, of appends one after the other, and of edits.
THEOREM VerdictIsExact == AuditSpec => []VerdictIsRight
<1>1. AuditInv => VerdictIsRight
  <2> SUFFICES ASSUME AuditInv, Quiet, ~overlapped, ~cut
               PROVE  VerifyOk <=> \A r \in log : r.id \notin damaged
    BY DEF VerdictIsRight
  <2>1. LinksInv /\ \A r \in log : r.hash = Append(r.prev, <<r.id, 0>>)
    BY AtRest DEF AuditInv
  <2>2. ASSUME NEW r \in log
        PROVE  r \in Entry /\ r.prev \in Hashes /\ r.id \in Nat /\ r.payload \in {0, 1}
    BY <2>1 DEF LinksInv, RowsInv, Entry
  <2>3. ASSUME NEW r \in log, r.id \notin damaged
        PROVE  r.prev = LastHash(Earlier(r)) /\ r.hash = RowHash(r.prev, r)
    BY <2>1, <2>3 DEF LinksInv, ChainInv, RowHash
  <2>4. ASSUME NEW r \in log, r.id \in damaged, r.prev = LastHash(Earlier(r)), r.hash = RowHash(r.prev, r)
        PROVE  FALSE
    <3>1. CASE r.payload = 1
      <4>1. Append(r.prev, <<r.id, 0>>) = Append(r.prev, <<r.id, 1>>)
        BY <2>1, <2>4, <3>1 DEF RowHash
      <4>2. QED
        BY <2>2, <4>1, HashTells
    <3>2. CASE Lost(r)
      <4>1. Earlier(r) # {}
        BY <2>4, <3>2 DEF Lost, LastHash
      <4>2. Ordered(Earlier(r)) /\ Earlier(r) \subseteq log
        <5>1. Earlier(r) \subseteq log
          BY DEF Earlier
        <5>2. QED
          BY <2>1, <5>1, LogIsOrdered, OrderedSubset DEF LinksInv
      <4>3. PICK x \in Earlier(r) : Newest(x, Earlier(r))
        BY <4>1, <4>2, NewestIsThere
      <4>4. r.prev = Append(x.prev, <<x.id, 0>>)
        BY <2>1, <2>4, <4>2, <4>3, NewestHash
      <4>5. LastId(r.prev) = x.id
        BY <2>2, <4>2, <4>4, HashTells
      <4>6. QED
        BY <3>2, <4>2, <4>5 DEF Lost
    <3>3. QED
      BY <2>1, <2>4, <3>1, <3>2 DEF LinksInv, DamageInv
  <2>5. QED
    BY <2>3, <2>4 DEF VerifyOk, Earlier
<1>2. QED
  BY AuditInvariant, <1>1, PTL

\* A row has these columns, and no more than MaxRows are inserted.
Shaped(r) == r = [id |-> r.id, at |-> r.at, payload |-> r.payload, prev |-> r.prev, hash |-> r.hash]
RowsAreShaped == \A r \in log : Shaped(r)

LEMMA UsedIdsAreBounded ==
  ASSUME AuditTypeOK
  PROVE  Cardinality(usedIds) \in 0..MaxRows
<1>1. IsFiniteSet(Ids) /\ Cardinality(Ids) = MaxRows
  BY AuditAssumption, FS_Interval DEF Ids
<1>2. IsFiniteSet(usedIds) /\ Cardinality(usedIds) <= Cardinality(Ids)
  BY <1>1, FS_Subset DEF AuditTypeOK
<1>3. QED
  BY <1>1, <1>2, AuditAssumption, FS_CardinalityType

LEMMA AuditNextType ==
  ASSUME AuditTypeOK, RowsAreShaped, [AuditNext]_auditVars
  PROVE  AuditTypeOK' /\ RowsAreShaped'
<1>1. Cardinality(usedIds) \in 0..MaxRows /\ MaxRows \in Nat /\ Ids = 1..MaxRows
  BY UsedIdsAreBounded, AuditAssumption DEF Ids
\* What a step may do to the rows.
<1>2. ASSUME usedIds \subseteq usedIds', usedIds' \subseteq Ids,
             \A r \in log' : /\ Shaped(r) /\ r.id \in usedIds' /\ r.at \in 0..MaxRows /\ r.payload \in {0, 1},
             auditTier' = auditTier,
             appendPc' \in [Appenders -> {"idle", "head", "insert", "hash"}],
             began' \in [Appenders -> 0..MaxRows],
             overlapped' \in BOOLEAN, cut' \in BOOLEAN, damaged' \subseteq Ids
      PROVE  AuditTypeOK' /\ RowsAreShaped'
  BY <1>2 DEF AuditTypeOK, RowsAreShaped, Shaped
<1>3. \A r \in log : Shaped(r) /\ r.id \in usedIds /\ r.at \in 0..MaxRows /\ r.payload \in {0, 1}
  BY DEF AuditTypeOK, RowsAreShaped
<1> USE DEF AuditTypeOK
<1>4. ASSUME NEW c \in Appenders, BeginAppend(c) PROVE AuditTypeOK' /\ RowsAreShaped'
  BY <1>1, <1>2, <1>3, <1>4 DEF BeginAppend, Quiet
<1>5. ASSUME NEW c \in Appenders, ReadHead(c) PROVE AuditTypeOK' /\ RowsAreShaped'
  BY <1>2, <1>3, <1>5 DEF ReadHead
<1>6. ASSUME NEW c \in Appenders, InsertRow(c) PROVE AuditTypeOK' /\ RowsAreShaped'
  <2>1. PICK id \in Ids \ usedIds :
          /\ usedIds' = usedIds \union {id}
          /\ \/ /\ auditTier = "pool"
                /\ LET row == NewRow(c, id, began[c])
                   IN  log' = log \union {[row EXCEPT !.hash = RowHash(prevHash[c], row)]}
                /\ EndAppend(c)
             \/ /\ auditTier = "silo"
                /\ LET row == NewRow(c, id, Cardinality(usedIds))
                   IN  log' = log \union {row} /\ pendingRow' = [pendingRow EXCEPT ![c] = row]
                /\ appendPc' = [appendPc EXCEPT ![c] = "hash"]
                /\ UNCHANGED <<began, prevHash>>
    BY <1>6 DEF InsertRow
  <2>2. \E at, h :
          at \in 0..MaxRows /\ log' = log \union {[id |-> id, at |-> at, payload |-> 0, prev |-> prevHash[c], hash |-> h]}
    <3>1. CASE auditTier = "pool"
      <4>1. log' = log \union {[id |-> id, at |-> began[c], payload |-> 0, prev |-> prevHash[c],
                                hash |-> RowHash(prevHash[c], NewRow(c, id, began[c]))]}
        BY <2>1, <3>1 DEF NewRow
      <4>2. QED
        BY <4>1
    <3>2. CASE auditTier = "silo"
      <4>1. log' = log \union {[id |-> id, at |-> Cardinality(usedIds), payload |-> 0, prev |-> prevHash[c],
                                hash |-> NoHash]}
        BY <2>1, <3>2 DEF NewRow
      <4>2. QED
        BY <1>1, <4>1
    <3>3. QED
      BY <2>1, <3>1, <3>2
  <2>3. PICK at, h :
          at \in 0..MaxRows /\ log' = log \union {[id |-> id, at |-> at, payload |-> 0, prev |-> prevHash[c], hash |-> h]}
    BY <2>2
  <2>4. \A r \in log' : Shaped(r) /\ r.id \in usedIds' /\ r.at \in 0..MaxRows /\ r.payload \in {0, 1}
    <3>1. ASSUME NEW r \in log' PROVE Shaped(r) /\ r.id \in usedIds' /\ r.at \in 0..MaxRows /\ r.payload \in {0, 1}
      <4>1. CASE r \in log
        BY <1>3, <2>1, <4>1
      <4>2. CASE r = [id |-> id, at |-> at, payload |-> 0, prev |-> prevHash[c], hash |-> h]
        BY <2>1, <2>3, <4>2 DEF Shaped
      <4>3. QED
        BY <2>3, <3>1, <4>1, <4>2
    <3>2. QED
      BY <3>1
  <2>5. /\ appendPc' \in [Appenders -> {"idle", "head", "insert", "hash"}] /\ began' \in [Appenders -> 0..MaxRows]
    <3>1. EndAppend(c) \/ (appendPc' = [appendPc EXCEPT ![c] = "hash"] /\ began' = began)
      BY <2>1
    <3>2. CASE EndAppend(c)
      BY <1>1, <3>2 DEF EndAppend
    <3>3. CASE appendPc' = [appendPc EXCEPT ![c] = "hash"] /\ began' = began
      BY <3>3
    <3>4. QED
      BY <3>1, <3>2, <3>3
  <2>6. UNCHANGED <<auditTier, overlapped, cut, damaged>>
    BY <1>6 DEF InsertRow
  <2>7. QED
    BY <1>2, <2>1, <2>4, <2>5, <2>6
<1>7. ASSUME NEW c \in Appenders, WriteHash(c) PROVE AuditTypeOK' /\ RowsAreShaped'
  <2>1. /\ log' = {IF r.id = pendingRow[c].id THEN [r EXCEPT !.hash = RowHash(prevHash[c], pendingRow[c])] ELSE r : r \in log}
        /\ UNCHANGED <<auditTier, usedIds, overlapped, cut, damaged>>
    BY <1>7 DEF WriteHash
  <2>2. ASSUME NEW r \in log PROVE LET s == [r EXCEPT !.hash = RowHash(prevHash[c], pendingRow[c])] IN
               Shaped(s) /\ s.id \in usedIds /\ s.at \in 0..MaxRows /\ s.payload \in {0, 1}
    <3>1. [r EXCEPT !.hash = RowHash(prevHash[c], pendingRow[c])]
            = [id |-> r.id, at |-> r.at, payload |-> r.payload, prev |-> r.prev,
               hash |-> RowHash(prevHash[c], pendingRow[c])]
      BY <1>3 DEF Shaped
    <3>2. QED
      BY <1>3, <3>1 DEF Shaped
  <2>3. \A r \in log' : Shaped(r) /\ r.id \in usedIds' /\ r.at \in 0..MaxRows /\ r.payload \in {0, 1}
    BY <1>3, <2>1, <2>2
  <2>4. /\ appendPc' \in [Appenders -> {"idle", "head", "insert", "hash"}] /\ began' \in [Appenders -> 0..MaxRows]
    BY <1>1, <1>7 DEF WriteHash, EndAppend
  <2>5. QED
    BY <1>2, <2>1, <2>3, <2>4
<1>8. ASSUME NEW c \in Appenders, AppendFails(c) PROVE AuditTypeOK' /\ RowsAreShaped'
  <2>1. /\ appendPc' \in [Appenders -> {"idle", "head", "insert", "hash"}] /\ began' \in [Appenders -> 0..MaxRows]
    BY <1>1, <1>8 DEF AppendFails, EndAppend
  <2>2. UNCHANGED <<auditTier, log, usedIds, overlapped, damaged>> /\ cut' \in BOOLEAN
    BY <1>8 DEF AppendFails
  <2>3. QED
    BY <1>2, <1>3, <2>1, <2>2
<1>9. ASSUME NEW r \in log, Alter(r) PROVE AuditTypeOK' /\ RowsAreShaped'
  <2>1. /\ log' = (log \ {r}) \union {[r EXCEPT !.payload = 1]} /\ damaged' = damaged \union {r.id}
        /\ UNCHANGED <<auditTier, usedIds, appendPc, began, overlapped, cut>>
    BY <1>9 DEF Alter, callLocals
  <2>2. [r EXCEPT !.payload = 1] = [id |-> r.id, at |-> r.at, payload |-> 1, prev |-> r.prev, hash |-> r.hash]
    BY <1>3 DEF Shaped
  <2>3. \A s \in log' : Shaped(s) /\ s.id \in usedIds' /\ s.at \in 0..MaxRows /\ s.payload \in {0, 1}
    <3>1. ASSUME NEW s \in log' PROVE Shaped(s) /\ s.id \in usedIds' /\ s.at \in 0..MaxRows /\ s.payload \in {0, 1}
      <4>1. CASE s \in log
        BY <1>3, <2>1, <4>1
      <4>2. CASE s = [id |-> r.id, at |-> r.at, payload |-> 1, prev |-> r.prev, hash |-> r.hash]
        BY <1>3, <2>1, <4>2 DEF Shaped
      <4>3. QED
        BY <2>1, <2>2, <3>1, <4>1, <4>2
    <3>2. QED
      BY <3>1
  <2>4. damaged' \subseteq Ids
    BY <1>3, <2>1
  <2>5. QED
    BY <1>2, <2>1, <2>3, <2>4
<1>10. ASSUME NEW r \in log, Remove(r) PROVE AuditTypeOK' /\ RowsAreShaped'
  <2>1. /\ log' = log \ {r} /\ UNCHANGED <<auditTier, usedIds, appendPc, began, overlapped, cut>>
        /\ \E next \in SUBSET log : damaged' = damaged \union {s.id : s \in next}
    BY <1>10 DEF Remove, callLocals
  <2>2. damaged' \subseteq Ids
    BY <1>3, <2>1
  <2>3. QED
    BY <1>2, <1>3, <2>1, <2>2
<1>11. CASE UNCHANGED auditVars
  BY <1>2, <1>3, <1>11 DEF auditVars, callLocals
<1>12. QED
  BY <1>4, <1>5, <1>6, <1>7, <1>8, <1>9, <1>10, <1>11 DEF AuditNext

\* Every reachable state of the audit log and its appends is well typed, with appends
\* that overlap or die too.
THEOREM AuditTypeCorrect == AuditSpec => []AuditTypeOK
<1>1. AuditInit => AuditTypeOK /\ RowsAreShaped
  <2>1. MaxRows \in Nat
    BY AuditAssumption
  <2>2. ASSUME AuditInit PROVE AuditTypeOK /\ RowsAreShaped
    <3>1. auditTier \in AuditTiers /\ log = {} /\ usedIds = {} /\ damaged = {} /\ overlapped = FALSE /\ cut = FALSE
      BY <2>2 DEF AuditInit
    <3>2. /\ appendPc \in [Appenders -> {"idle", "head", "insert", "hash"}]
          /\ began \in [Appenders -> 0..MaxRows]
      BY <2>1, <2>2 DEF AuditInit
    <3>3. QED
      BY <3>1, <3>2 DEF AuditTypeOK, RowsAreShaped
  <2>3. QED
    BY <2>2
<1>2. AuditTypeOK /\ RowsAreShaped /\ [AuditNext]_auditVars => (AuditTypeOK /\ RowsAreShaped)'
  BY AuditNextType
<1>3. QED
  BY <1>1, <1>2, PTL DEF AuditSpec
=============================================================================
