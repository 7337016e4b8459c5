-------------------------- MODULE AssignmentGroups --------------------------
(***************************************************************************)
(* The groups of one group assignment and who is in them.  A learner is    *)
(* kept to one group by a look at the sibling groups before the INSERT;    *)
(* the table's key is (group, learner) and does not.  On either tier the   *)
(* INSERT commits last, so a call is its look and its INSERT.              *)
(***************************************************************************)
EXTENDS Integers, FiniteSets

CONSTANTS
  GroupCalls,  \* POST /groups/:id/members in flight at once
  Groups,      \* groups the assignment ever gets
  Students     \* learners

ASSUME GroupAssumption == IsFiniteSet(Groups)

VARIABLES
  group,       \* per group: none, there, deleted
  member,      \* rows of assignment_group_member: <<group, student>>
  joining,     \* per call: the row it is about to insert, once it has looked
  contending   \* history: students two calls were adding to different groups at once

groupVars == <<group, member, joining, contending>>

NoRow == << >>

GroupInit ==
  /\ group = [g \in Groups |-> "none"]
  /\ member = {}
  /\ joining = [c \in GroupCalls |-> NoRow]
  /\ contending = {}

GroupsOf(u) == {g \in Groups : <<g, u>> \in member}

CreateGroup(g) ==
  /\ group[g] = "none"
  /\ group' = [group EXCEPT ![g] = "there"]
  /\ UNCHANGED <<member, joining, contending>>

\* ON DELETE CASCADE takes the members with it.
DeleteGroup(g) ==
  /\ group[g] = "there"
  /\ group' = [group EXCEPT ![g] = "deleted"]
  /\ member' = {m \in member : m[1] # g}
  /\ UNCHANGED <<joining, contending>>

RemoveMember(m) ==
  /\ m \in member
  /\ member' = member \ {m}
  /\ UNCHANGED <<group, joining, contending>>

\* mutant: the sibling groups of the group, not of its assignment.
InSiblingSkipped(g, u) == FALSE

InSibling(g, u) == GroupsOf(u) \ {g} # {}

Joining(u) == {joining[c][1] : c \in {d \in GroupCalls : joining[d] # NoRow /\ joining[d][2] = u}}

\* addMember up to its look; a learner who is in a sibling group ends the call.
LookForSibling(c) ==
  /\ joining[c] = NoRow
  /\ \E g \in {x \in Groups : group[x] = "there"}, u \in Students :
       /\ ~InSibling(g, u)
       /\ joining' = [joining EXCEPT ![c] = <<g, u>>]
       /\ contending' = IF Joining(u) \ {g} = {} THEN contending ELSE contending \union {u}
  /\ UNCHANGED <<group, member>>

\* ON CONFLICT DO NOTHING; a group that was deleted meanwhile fails the call on
\* its foreign key.
InsertMember(c) ==
  /\ joining[c] # NoRow
  /\ member' = IF group[joining[c][1]] = "there" THEN member \union {joining[c]} ELSE member
  /\ joining' = [joining EXCEPT ![c] = NoRow]
  /\ UNCHANGED <<group, contending>>

\* A query throws or the process dies.
JoinFails(c) ==
  /\ joining[c] # NoRow
  /\ joining' = [joining EXCEPT ![c] = NoRow]
  /\ UNCHANGED <<group, member, contending>>

GroupNext ==
  \/ \E g \in Groups : CreateGroup(g) \/ DeleteGroup(g)
  \/ \E m \in member : RemoveMember(m)
  \/ \E c \in GroupCalls : LookForSibling(c) \/ InsertMember(c) \/ JoinFails(c)

GroupSpec == GroupInit /\ [][GroupNext]_groupVars

-----------------------------------------------------------------------------
GroupTypeOK ==
  /\ group \in [Groups -> {"none", "there", "deleted"}]
  /\ member \subseteq Groups \X Students
  /\ joining \in [GroupCalls -> (Groups \X Students) \union {NoRow}]
  /\ contending \subseteq Students

\* A learner is in one group of the assignment, and in none that was deleted:
\* only two calls that had both looked before either inserted put one in two.
OneGroupEach ==
  /\ \A u \in Students \ contending : Cardinality(GroupsOf(u)) <= 1
  /\ \A m \in member : group[m[1]] = "there"
=============================================================================
