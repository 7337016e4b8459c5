------------------------- MODULE Allowances_proofs --------------------------
(***************************************************************************)
(* How much is allowed at most, for any number of calls at once: usable    *)
(* tokens of a session, attempts of a quiz, calls of the model in a day,   *)
(* hits in a window.                                                       *)
(*                                                                         *)
(* A new token takes an id that no token and no family has (IssuedInv,     *)
(* FamilyInv), so that sign-in opens a family of its own; what a refresh   *)
(* inserts is of the family it presented (CallInv), so that retiring makes *)
(* room for it; and nobody is about to mint in a family that was ended     *)
(* (EndedInv).                                                             *)
(*                                                                         *)
(* A call that starts an attempt has counted no more attempts than there   *)
(* are (NumberInv). While an attempt is not contested, one submission at   *)
(* most is at it, its responses are that submission's until it is scored,  *)
(* and none is at it afterwards (SoleInv).                                 *)
(*                                                                         *)
(* What was spent on the model is what was charged, what never will be and *)
(* what is about to be (LedgerInv).  A call joins those that have passed   *)
(* the ceiling while the usage is below it, and there are never more of    *)
(* them than calls (PassedInv).                                            *)
(*                                                                         *)
(* A caller that was refused is never told too short a wait: by the tick   *)
(* it was given its window is over, and no command of another caller puts  *)
(* that off again (RefusedInv), because a call asks for the time left only *)
(* after it has seen to it that the window ends (CountedInv).              *)
(*                                                                         *)
(* What is allowed in any stretch as long as a window is a sum over the    *)
(* ticks, and a hit can change every one of them. What they have in common *)
(* is the tick at which the bucket in place began (BegunAt): since then no *)
(* more than the limit was allowed, nor in any stretch that reaches up to  *)
(* it, and the bucket lasts a window from there. So a stretch lies in two  *)
(* buckets at most (StretchInv). It rests on what MapThenSumSet is for any *)
(* finite set; the lemmas on totals show that with a set of numbers, or of *)
(* sets, as the property of an induction (UpTo, OneByOne).                 *)
(***************************************************************************)
EXTENDS Sessions, QuizAttempts, ChatCeiling, RateLimiter,
  FiniteSetTheorems, WellFoundedInduction, TLAPS

(* The tokens of a session. *)

\* Rows are not deleted, and ids are given in order.
IssuedInv == Issued = 1..Cardinality(Issued)

\* A family is named by one of its tokens, and who holds a token got it issued.
FamilyInv ==
  /\ \A t \in Tokens : IF t \in Issued THEN family[t] \in Issued ELSE family[t] = NoToken
  /\ held \subseteq Issued /\ ended \subseteq Issued

\* A call presents a token that was handed out; its successor is of its family.
CallInv == \A c \in SessionCalls :
  /\ sessionPc[c] # "idle" => presented[c] \in held
  /\ sessionPc[c] = "retire" => minted[c] \in Issued /\ family[minted[c]] = FamilyOf(c)

\* No refresh is past its check in a family that was ended.
EndedInv == \A c \in SessionCalls : sessionPc[c] = "mint" => FamilyOf(c) \notin ended

SessionIInv ==
  /\ SessionTypeOK /\ IssuedInv /\ FamilyInv /\ CallInv
  /\ OneUsableToken /\ EndedInv /\ EndedStaysEnded

-----------------------------------------------------------------------------
USE SessionAssumption DEF SessionAssumption

LEMMA TokenSets ==
  ASSUME NEW S, S \subseteq Tokens
  PROVE  IsFiniteSet(S) /\ Cardinality(S) \in Nat
<1>1. IsFiniteSet(Tokens)
  BY FS_Interval DEF Tokens
<1>2. QED
  BY <1>1, FS_Subset, FS_CardinalityType

LEMMA SessionInitInv == SessionInit => SessionIInv
<1> SUFFICES ASSUME SessionInit PROVE SessionIInv
  OBVIOUS
<1>1. SessionTypeOK
  BY DEF SessionInit, SessionTypeOK, Tokens, NoToken
<1>2. Issued = {} /\ (\A f : Usable(f) = {}) /\ Cardinality({}) = 0
  BY FS_EmptySet DEF SessionInit, Issued, Usable
<1>3. IssuedInv
  BY <1>2 DEF IssuedInv
<1>4. FamilyInv /\ CallInv /\ EndedInv /\ EndedStaysEnded
  BY <1>2 DEF SessionInit, FamilyInv, CallInv, EndedInv, EndedStaysEnded
<1>5. OneUsableToken
  BY <1>2 DEF OneUsableToken, SessionInit
<1>6. QED
  BY <1>1, <1>3, <1>4, <1>5 DEF SessionIInv

\* A token that is inserted is new, and the others stay what they were.
LEMMA NewToken ==
  ASSUME SessionTypeOK, IssuedInv, NEW f \in Tokens, InsertToken(NextToken, f)
  PROVE  /\ NextToken \in Tokens \ Issued
         /\ Issued' = Issued \union {NextToken} /\ IssuedInv'
         /\ token' \in [Tokens -> {"none", "live", "revoked"}]
         /\ family' \in [Tokens -> Tokens \union {NoToken}]
         /\ family'[NextToken] = f
         /\ \A t \in Tokens \ {NextToken} : token'[t] = token[t] /\ family'[t] = family[t]
<1> DEFINE n == Cardinality(Issued)
<1>1. Issued \subseteq Tokens
  BY DEF Issued
<1>2. IsFiniteSet(Issued) /\ n \in Nat /\ Issued = 1..n
  BY <1>1, TokenSets DEF IssuedInv
<1>3. NextToken = n + 1 /\ NextToken \notin Issued /\ NextToken \in Tokens
  BY <1>2 DEF NextToken, InsertToken
<1>4. /\ token' = [token EXCEPT ![NextToken] = "live"]
      /\ family' = [family EXCEPT ![NextToken] = f]
  BY DEF InsertToken
<1>5. Issued' = Issued \union {NextToken}
  BY <1>3, <1>4 DEF Issued, SessionTypeOK
<1>6. Cardinality(Issued') = n + 1
  BY <1>2, <1>3, <1>5, FS_AddElement
<1>7. Issued' = 1..n + 1
  BY <1>2, <1>3, <1>5
<1>8. QED
  BY <1>3, <1>4, <1>5, <1>6, <1>7 DEF IssuedInv, SessionTypeOK

\* Steps that issue no token.
LEMMA NoNewToken ==
  ASSUME SessionTypeOK, IssuedInv, FamilyInv, UNCHANGED family,
         token' \in [Tokens -> {"none", "live", "revoked"}],
         \A t \in Tokens : token'[t] = token[t] \/ (t \in Issued /\ token'[t] = "revoked")
  PROVE  Issued' = Issued /\ IssuedInv'
<1>1. Issued' = Issued
  BY DEF Issued
<1>2. QED
  BY <1>1 DEF IssuedInv

LEMMA SessionNextType ==
  ASSUME SessionTypeOK, IssuedInv, FamilyInv, CallInv, [SessionNext]_sessionVars
  PROVE  SessionTypeOK'
<1> USE DEF SessionTypeOK, SessionGoto
<1>0. \A c \in SessionCalls : sessionPc[c] # "idle" => presented[c] \in Tokens /\ FamilyOf(c) \in Tokens
  BY DEF CallInv, FamilyInv, FamilyOf, Issued
<1>1. ASSUME NEW c \in SessionCalls, SignIn(c) PROVE SessionTypeOK'
  <2>1. NextToken \in Tokens /\ InsertToken(NextToken, NextToken)
    BY <1>1 DEF SignIn, InsertToken
  <2>2. held' \subseteq Tokens
    BY <1>1, <2>1 DEF SignIn, MayAnswer
  <2>3. QED
    BY <1>1, <2>1, <2>2, NewToken DEF SignIn
<1>2. ASSUME NEW c \in SessionCalls, FindForRefresh(c) \/ FindForLogout(c) PROVE SessionTypeOK'
  BY <1>2 DEF FindForRefresh, FindForLogout
<1>3. ASSUME NEW c \in SessionCalls, Mint(c) PROVE SessionTypeOK'
  <2>1. FamilyOf(c) \in Tokens /\ InsertToken(NextToken, FamilyOf(c))
    BY <1>0, <1>3 DEF Mint
  <2>2. QED
    BY <1>3, <2>1, NewToken DEF Mint
<1>4. ASSUME NEW c \in SessionCalls, Retire(c) PROVE SessionTypeOK'
  <2>1. held' \subseteq Tokens
    BY <1>4 DEF Retire, MayAnswer, CallInv, Issued
  <2>2. lateRetires' \in [Tokens -> Nat]
    BY <1>0, <1>4 DEF Retire
  <2>3. QED
    BY <1>4, <2>1, <2>2 DEF Retire
<1>5. ASSUME NEW c \in SessionCalls, RevokeFamily(c) PROVE SessionTypeOK'
  BY <1>0, <1>5 DEF RevokeFamily
<1>6. ASSUME NEW c \in SessionCalls, SessionFail(c) PROVE SessionTypeOK'
  BY <1>6 DEF SessionFail
<1>7. CASE UNCHANGED sessionVars
  BY <1>7 DEF sessionVars
<1>8. QED
  BY <1>1, <1>2, <1>3, <1>4, <1>5, <1>6, <1>7 DEF SessionNext

\* A revocation touches tokens that were issued only.
LEMMA Revocation ==
  ASSUME SessionTypeOK, IssuedInv, FamilyInv, CallInv, NEW c \in SessionCalls,
         Retire(c) \/ RevokeFamily(c)
  PROVE  /\ Issued' = Issued /\ IssuedInv' /\ UNCHANGED family
         /\ \A t \in Tokens : token'[t] = token[t] \/ token'[t] = "revoked"
<1>1. presented[c] \in Issued /\ presented[c] \in Tokens
  BY DEF CallInv, FamilyInv, Retire, RevokeFamily, Issued
<1>2. FamilyOf(c) # NoToken
  BY <1>1 DEF FamilyInv, FamilyOf, Issued, Tokens, NoToken
<1>3. \A t \in Tokens : token'[t] = token[t] \/ (t \in Issued /\ token'[t] = "revoked")
  <2>1. CASE Retire(c)
    BY <1>1, <2>1 DEF Retire, SessionTypeOK
  <2>2. CASE RevokeFamily(c)
    BY <1>2, <2>2 DEF RevokeFamily, FamilyInv
  <2>3. QED
    BY <2>1, <2>2
<1>4. token' \in [Tokens -> {"none", "live", "revoked"}]
  BY DEF Retire, RevokeFamily, SessionTypeOK
<1>5. UNCHANGED family
  BY DEF Retire, RevokeFamily
<1>6. QED
  BY <1>3, <1>4, <1>5, NoNewToken

LEMMA NextIssued ==
  ASSUME SessionTypeOK, IssuedInv, FamilyInv, CallInv, [SessionNext]_sessionVars
  PROVE  IssuedInv' /\ FamilyInv' /\ CallInv'
<1> USE DEF FamilyInv, CallInv, SessionGoto, FamilyOf
<1>0. Issued \subseteq Tokens /\ (UNCHANGED token => Issued' = Issued)
  BY DEF Issued
<1>1. ASSUME NEW c \in SessionCalls, SignIn(c) PROVE IssuedInv' /\ FamilyInv' /\ CallInv'
  <2>1. NextToken \in Tokens /\ InsertToken(NextToken, NextToken)
    BY <1>1 DEF SignIn, InsertToken
  <2>2. held \subseteq held' /\ held' \subseteq held \union {NextToken} /\ UNCHANGED <<sessionPc, presented, minted, ended>>
    BY <1>1 DEF SignIn, MayAnswer
  <2>3. QED
    BY <1>0, <2>1, <2>2, NewToken
<1>2. ASSUME NEW c \in SessionCalls, FindForRefresh(c) \/ FindForLogout(c)
      PROVE  IssuedInv' /\ FamilyInv' /\ CallInv'
  <2>1. PICK t \in held, s \in {"revokeFamily", "mint"} : SessionGoto(c, s, t)
    BY <1>2 DEF FindForRefresh, FindForLogout
  <2>2. UNCHANGED <<token, family, held, minted, ended>>
    BY <1>2 DEF FindForRefresh, FindForLogout
  <2>3. /\ presented'[c] = t /\ sessionPc'[c] \in {"revokeFamily", "mint"}
        /\ \A d \in SessionCalls \ {c} : presented'[d] = presented[d] /\ sessionPc'[d] = sessionPc[d]
    BY <2>1 DEF SessionTypeOK
  <2>4. QED
    BY <1>0, <2>2, <2>3 DEF IssuedInv
<1>3. ASSUME NEW c \in SessionCalls, Mint(c) PROVE IssuedInv' /\ FamilyInv' /\ CallInv'
  <2>1. FamilyOf(c) \in Issued /\ FamilyOf(c) \in Tokens /\ InsertToken(NextToken, FamilyOf(c))
    BY <1>0, <1>3 DEF Mint
  <2>2. /\ UNCHANGED <<held, ended, presented>>
        /\ minted'[c] = NextToken /\ sessionPc'[c] = "retire" /\ sessionPc[c] = "mint"
        /\ \A d \in SessionCalls \ {c} : minted'[d] = minted[d] /\ sessionPc'[d] = sessionPc[d]
    BY <1>3 DEF Mint, SessionTypeOK
  <2>3. \A t \in Issued : t # NextToken /\ family'[t] = family[t] /\ t \in Issued'
    BY <1>0, <2>1, NewToken
  <2>4. family'[NextToken] = FamilyOf(c) /\ NextToken \in Issued' /\ IssuedInv'
    BY <2>1, NewToken
  <2>5. FamilyInv'
    BY <1>0, <2>1, <2>2, <2>3, <2>4, NewToken
  <2>6. \A d \in SessionCalls : sessionPc[d] # "idle" => presented[d] \in Issued
    OBVIOUS
  <2>7. CallInv'
    BY <1>0, <2>2, <2>3, <2>4, <2>6
  <2>8. QED
    BY <2>4, <2>5, <2>7
<1>4. ASSUME NEW c \in SessionCalls, Retire(c) \/ RevokeFamily(c)
      PROVE  IssuedInv' /\ FamilyInv' /\ CallInv'
  <2>1. Issued' = Issued /\ IssuedInv' /\ UNCHANGED family
    BY <1>4, Revocation
  <2>2. /\ held \subseteq held' /\ held' \subseteq Issued /\ ended' \subseteq Issued
        /\ sessionPc'[c] = "idle"
        /\ \A d \in SessionCalls \ {c} :
             sessionPc'[d] = sessionPc[d] /\ presented'[d] = presented[d] /\ minted'[d] = minted[d]
    BY <1>0, <1>4 DEF Retire, RevokeFamily, MayAnswer, SessionTypeOK
  <2>3. QED
    BY <1>0, <2>1, <2>2
<1>5. ASSUME NEW c \in SessionCalls, SessionFail(c) PROVE IssuedInv' /\ FamilyInv' /\ CallInv'
  BY <1>0, <1>5 DEF SessionFail, SessionTypeOK, IssuedInv
<1>6. CASE UNCHANGED sessionVars
  BY <1>0, <1>6 DEF sessionVars, IssuedInv
<1>7. QED
  BY <1>1, <1>2, <1>3, <1>4, <1>5, <1>6 DEF SessionNext

LEMMA ExtraTokens ==
  ASSUME NEW S, S \subseteq Tokens, NEW T, NEW m, T \subseteq S \union {m}
  PROVE  Cardinality(T) <= Cardinality(S) + 1
<1>1. IsFiniteSet(S) /\ Cardinality(S) \in Nat
  BY TokenSets
<1>2. IsFiniteSet(S \union {m}) /\ Cardinality(S \union {m}) <= Cardinality(S) + 1
  <2>1. /\ IsFiniteSet(S \union {m})
        /\ Cardinality(S \union {m}) = IF m \in S THEN Cardinality(S) ELSE Cardinality(S) + 1
    BY <1>1, FS_AddElement
  <2>2. QED
    BY <1>1, <2>1
<1>3. IsFiniteSet(T) /\ Cardinality(T) <= Cardinality(S \union {m})
  BY <1>2, FS_Subset
<1>4. Cardinality(T) \in Nat /\ Cardinality(S \union {m}) \in Nat
  BY <1>2, <1>3, FS_CardinalityType
<1>5. QED
  BY <1>1, <1>2, <1>3, <1>4

\* A refresh hands out a token of the family it takes one from, or counts as late.
LEMMA NextUsable ==
  ASSUME SessionIInv, [SessionNext]_sessionVars
  PROVE  OneUsableToken'
<1> USE DEF SessionTypeOK, FamilyInv
<1>0. SessionTypeOK /\ IssuedInv /\ FamilyInv /\ CallInv /\ OneUsableToken /\ Issued \subseteq Tokens
  BY DEF SessionIInv, Issued
<1>1. \A f \in Tokens : Usable(f) \subseteq Tokens
  BY <1>0 DEF Usable
<1>2. ASSUME \A f \in Tokens : Usable(f)' \subseteq Usable(f) /\ lateRetires'[f] = lateRetires[f]
      PROVE  OneUsableToken'
  <2>1. SUFFICES ASSUME NEW f \in Tokens PROVE Cardinality(Usable(f)') <= 1 + lateRetires[f]
    BY <1>2 DEF OneUsableToken
  <2>2. IsFiniteSet(Usable(f)) /\ Usable(f)' \subseteq Usable(f)
    BY <1>1, <1>2, TokenSets
  <2>3. Cardinality(Usable(f)') <= Cardinality(Usable(f)) /\ IsFiniteSet(Usable(f)')
    BY <2>2, FS_Subset
  <2>4. Cardinality(Usable(f)') \in Nat /\ Cardinality(Usable(f)) \in Nat
    BY <2>2, <2>3, FS_CardinalityType
  <2>5. QED
    BY <1>0, <2>3, <2>4 DEF OneUsableToken
<1>3. ASSUME NEW c \in SessionCalls, SignIn(c) PROVE OneUsableToken'
  <2>1. NextToken \in Tokens /\ InsertToken(NextToken, NextToken)
    BY <1>3 DEF SignIn, InsertToken
  <2>2. held' \subseteq held \union {NextToken} /\ UNCHANGED lateRetires
    BY <1>3 DEF SignIn, MayAnswer
  <2>3. /\ NextToken \notin Issued /\ family'[NextToken] = NextToken
        /\ \A t \in Tokens \ {NextToken} : token'[t] = token[t] /\ family'[t] = family[t]
    BY <1>0, <2>1, NewToken
  <2>4. SUFFICES ASSUME NEW f \in Tokens PROVE Cardinality(Usable(f)') <= 1 + lateRetires[f]
    BY <2>2 DEF OneUsableToken
  <2>5. CASE f = NextToken
    <3>1. Usable(f) = {}
      BY <1>0, <2>3, <2>5 DEF Usable
    <3>2. Usable(f)' \subseteq Usable(f) \union {NextToken}
      BY <1>0, <2>2, <2>3 DEF Usable
    <3>3. Cardinality(Usable(f)') <= Cardinality({}) + 1
      BY <1>1, <3>1, <3>2, ExtraTokens
    <3>4. Cardinality({}) = 0 /\ IsFiniteSet(Usable(f)')
      BY <3>1, <3>2, FS_EmptySet, FS_AddElement, FS_Subset
    <3>5. Cardinality(Usable(f)') \in Nat
      BY <3>4, FS_CardinalityType
    <3>6. QED
      BY <1>0, <3>3, <3>4, <3>5
  <2>6. CASE f # NextToken
    <3>1. Usable(f)' \subseteq Usable(f)
      BY <1>0, <2>2, <2>3, <2>6 DEF Usable
    <3>2. IsFiniteSet(Usable(f))
      BY <1>1, TokenSets
    <3>3. Cardinality(Usable(f)') <= Cardinality(Usable(f)) /\ IsFiniteSet(Usable(f)')
      BY <3>1, <3>2, FS_Subset
    <3>4. Cardinality(Usable(f)') \in Nat /\ Cardinality(Usable(f)) \in Nat
      BY <3>2, <3>3, FS_CardinalityType
    <3>5. QED
      BY <1>0, <3>3, <3>4 DEF OneUsableToken
  <2>7. QED
    BY <2>5, <2>6
<1>4. ASSUME NEW c \in SessionCalls, Mint(c) PROVE OneUsableToken'
  <2>1. FamilyOf(c) \in Tokens /\ InsertToken(NextToken, FamilyOf(c)) /\ UNCHANGED <<held, lateRetires>>
    BY <1>0, <1>4 DEF Mint, CallInv, FamilyOf
  <2>2. /\ NextToken \notin held
        /\ \A t \in Tokens \ {NextToken} : token'[t] = token[t] /\ family'[t] = family[t]
    BY <1>0, <2>1, NewToken
  <2>3. \A f \in Tokens : Usable(f)' \subseteq Usable(f)
    BY <1>0, <2>1, <2>2 DEF Usable
  <2>4. QED
    BY <1>2, <2>1, <2>3
<1>5. ASSUME NEW c \in SessionCalls, Retire(c) PROVE OneUsableToken'
  <2>1. PICK p \in held, m \in Issued, g \in Tokens :
           /\ p = presented[c] /\ m = minted[c] /\ g = FamilyOf(c)
           /\ family[p] = g /\ family[m] = g
    BY <1>0, <1>5 DEF Retire, CallInv, FamilyOf
  <2>2. /\ token' = [token EXCEPT ![p] = "revoked"] /\ UNCHANGED family
        /\ held' \subseteq held \union {m}
        /\ lateRetires' = [lateRetires EXCEPT ![g] = IF token[p] = "live" THEN @ ELSE @ + 1]
    BY <1>5, <2>1 DEF Retire, MayAnswer
  <2>3. SUFFICES ASSUME NEW f \in Tokens PROVE Cardinality(Usable(f)') <= 1 + lateRetires'[f]
    BY DEF OneUsableToken
  <2>4. IsFiniteSet(Usable(f)) /\ Cardinality(Usable(f)) \in Nat /\ Cardinality(Usable(f)) <= 1 + lateRetires[f]
    BY <1>0, <1>1, TokenSets DEF OneUsableToken
  <2>5. IsFiniteSet(Usable(f)') /\ Cardinality(Usable(f)') \in Nat
    <3>1. Usable(f)' \subseteq Tokens
      BY <1>0, <2>1, <2>2 DEF Usable
    <3>2. QED
      BY <3>1, TokenSets
  <2>6. p \in Tokens /\ lateRetires[f] \in Nat
    BY <1>0, <2>1
  <2>7. CASE f # g
    <3>1. Usable(f)' \subseteq Usable(f)
      BY <1>0, <2>1, <2>2, <2>7 DEF Usable
    <3>2. Cardinality(Usable(f)') <= Cardinality(Usable(f))
      BY <2>4, <3>1, FS_Subset
    <3>3. lateRetires'[f] = lateRetires[f]
      BY <1>0, <2>2, <2>7
    <3>4. QED
      BY <2>4, <2>5, <2>6, <3>2, <3>3
  <2>8. CASE f = g /\ token[p] = "live"
    <3>1. p \in Usable(f) /\ lateRetires'[f] = lateRetires[f]
      BY <1>0, <2>1, <2>2, <2>6, <2>8 DEF Usable
    <3>2. Usable(f)' \subseteq (Usable(f) \ {p}) \union {m}
      BY <1>0, <2>1, <2>2, <2>6, <2>8 DEF Usable
    <3>3. Cardinality(Usable(f) \ {p}) = Cardinality(Usable(f)) - 1
      BY <2>4, <3>1, FS_RemoveElement
    <3>4. Usable(f) \ {p} \subseteq Tokens
      BY <1>1
    <3>5. Cardinality(Usable(f)') <= Cardinality(Usable(f) \ {p}) + 1
      BY <3>2, <3>4, ExtraTokens
    <3>6. QED
      BY <2>4, <2>5, <2>6, <3>1, <3>3, <3>5
  <2>9. CASE f = g /\ token[p] # "live"
    <3>1. lateRetires'[f] = lateRetires[f] + 1
      BY <1>0, <2>2, <2>9
    <3>2. Usable(f)' \subseteq Usable(f) \union {m}
      BY <1>0, <2>1, <2>2, <2>6, <2>9 DEF Usable
    <3>3. Cardinality(Usable(f)') <= Cardinality(Usable(f)) + 1
      BY <1>1, <3>2, ExtraTokens
    <3>4. QED
      BY <2>4, <2>5, <2>6, <3>1, <3>3
  <2>10. QED
    BY <2>7, <2>8, <2>9
<1>6. ASSUME NEW c \in SessionCalls, RevokeFamily(c) PROVE OneUsableToken'
  <2>1. UNCHANGED <<held, lateRetires, family>> /\ \A t \in Tokens : token'[t] = token[t] \/ token'[t] = "revoked"
    BY <1>0, <1>6, Revocation DEF RevokeFamily
  <2>2. \A f \in Tokens : Usable(f)' \subseteq Usable(f)
    BY <1>0, <2>1 DEF Usable
  <2>3. QED
    BY <1>2, <2>1, <2>2
<1>7. ASSUME NEW c \in SessionCalls, FindForRefresh(c) \/ FindForLogout(c) \/ SessionFail(c)
      PROVE  OneUsableToken'
  BY <1>2, <1>7 DEF FindForRefresh, FindForLogout, SessionFail, Usable
<1>8. CASE UNCHANGED sessionVars
  BY <1>2, <1>8 DEF sessionVars, Usable
<1>9. QED
  BY <1>3, <1>4, <1>5, <1>6, <1>7, <1>8 DEF SessionNext

\* A family is ended with nobody about to mint in it, and all its tokens revoked.
LEMMA NextEnded ==
  ASSUME SessionIInv, [SessionNext]_sessionVars
  PROVE  EndedInv' /\ EndedStaysEnded'
<1> USE DEF SessionTypeOK, FamilyInv, EndedInv, EndedStaysEnded
<1>0. SessionTypeOK /\ IssuedInv /\ FamilyInv /\ CallInv /\ EndedInv /\ EndedStaysEnded /\ Issued \subseteq Tokens
  BY DEF SessionIInv, Issued
<1>1. \A c \in SessionCalls : sessionPc[c] # "idle" => presented[c] \in Issued /\ FamilyOf(c) \in Issued
  BY <1>0 DEF CallInv, FamilyOf
<1>2. ASSUME NEW c \in SessionCalls, SignIn(c) PROVE EndedInv' /\ EndedStaysEnded'
  <2>1. NextToken \in Tokens /\ InsertToken(NextToken, NextToken) /\ UNCHANGED <<sessionPc, presented, ended>>
    BY <1>2 DEF SignIn, InsertToken
  <2>2. EndedStaysEnded'
    BY <1>0, <2>1, NewToken
  <2>3. EndedInv'
    BY <1>0, <1>1, <2>1, NewToken DEF FamilyOf
  <2>4. QED
    BY <2>2, <2>3
<1>3. ASSUME NEW c \in SessionCalls, FindForRefresh(c) PROVE EndedInv' /\ EndedStaysEnded'
  <2>1. UNCHANGED <<token, family, ended>>
    BY <1>3 DEF FindForRefresh
  <2>2. /\ sessionPc'[c] = "mint" => presented'[c] \in held /\ token[presented'[c]] = "live"
        /\ \A d \in SessionCalls \ {c} : sessionPc'[d] = sessionPc[d] /\ presented'[d] = presented[d]
    BY <1>0, <1>3 DEF FindForRefresh, SessionGoto
  <2>3. EndedInv'
    BY <1>0, <2>1, <2>2 DEF FamilyOf
  <2>4. QED
    BY <1>0, <2>1, <2>3 DEF Issued
<1>4. ASSUME NEW c \in SessionCalls, FindForLogout(c) \/ SessionFail(c) PROVE EndedInv' /\ EndedStaysEnded'
  <2>1. UNCHANGED <<token, family, ended>>
    BY <1>4 DEF FindForLogout, SessionFail
  <2>2. /\ sessionPc'[c] # "mint"
        /\ \A d \in SessionCalls \ {c} : sessionPc'[d] = sessionPc[d] /\ presented'[d] = presented[d]
    BY <1>0, <1>4 DEF FindForLogout, SessionFail, SessionGoto
  <2>3. QED
    BY <1>0, <2>1, <2>2 DEF FamilyOf, Issued
<1>5. ASSUME NEW c \in SessionCalls, Mint(c) PROVE EndedInv' /\ EndedStaysEnded'
  <2>1. /\ FamilyOf(c) \in Tokens /\ FamilyOf(c) \notin ended
        /\ InsertToken(NextToken, FamilyOf(c)) /\ UNCHANGED ended
    BY <1>0, <1>1, <1>5 DEF Mint
  <2>2. EndedStaysEnded'
    BY <1>0, <2>1, NewToken
  <2>3. /\ sessionPc'[c] = "retire"
        /\ \A d \in SessionCalls \ {c} : sessionPc'[d] = sessionPc[d] /\ presented'[d] = presented[d]
    BY <1>0, <1>5 DEF Mint, SessionGoto
  <2>4. EndedInv'
    BY <1>0, <1>1, <2>1, <2>3, NewToken DEF FamilyOf
  <2>5. QED
    BY <2>2, <2>4
<1>6. ASSUME NEW c \in SessionCalls, Retire(c) PROVE EndedInv' /\ EndedStaysEnded'
  <2>1. Issued' = Issued /\ UNCHANGED <<family, ended>> /\ \A t \in Tokens : token'[t] = token[t] \/ token'[t] = "revoked"
    BY <1>0, <1>6, Revocation DEF Retire
  <2>2. /\ sessionPc'[c] = "idle"
        /\ \A d \in SessionCalls \ {c} : sessionPc'[d] = sessionPc[d] /\ presented'[d] = presented[d]
    BY <1>0, <1>6 DEF Retire, SessionGoto
  <2>3. QED
    BY <1>0, <2>1, <2>2 DEF FamilyOf
<1>7. ASSUME NEW c \in SessionCalls, RevokeFamily(c) PROVE EndedInv' /\ EndedStaysEnded'
  <2>1. PICK g \in Issued : g = FamilyOf(c)
    BY <1>1, <1>7 DEF RevokeFamily
  <2>2. /\ Issued' = Issued /\ UNCHANGED <<family>>
        /\ token' = [t \in Tokens |-> IF family[t] = g THEN "revoked" ELSE token[t]]
        /\ ended' = IF AboutToMint(g) = {} THEN ended \union {g} ELSE ended
    BY <1>0, <1>7, <2>1, Revocation DEF RevokeFamily
  <2>3. EndedStaysEnded'
    BY <1>0, <2>2
  <2>4. /\ sessionPc'[c] = "idle"
        /\ \A d \in SessionCalls \ {c} : sessionPc'[d] = sessionPc[d] /\ presented'[d] = presented[d]
    BY <1>0, <1>7 DEF RevokeFamily, SessionGoto
  <2>5. EndedInv'
    BY <1>0, <2>2, <2>4 DEF AboutToMint, FamilyOf
  <2>6. QED
    BY <2>3, <2>5
<1>8. CASE UNCHANGED sessionVars
  BY <1>0, <1>8 DEF sessionVars, FamilyOf, Issued
<1>9. QED
  BY <1>2, <1>3, <1>4, <1>5, <1>6, <1>7, <1>8 DEF SessionNext

\* The inductive invariant: ids are fresh, a successor is of the family it was
\* minted for, and nobody is about to mint in a family that was ended.
THEOREM SessionInvariant == SessionSpec => []SessionIInv
<1>1. SessionIInv /\ [SessionNext]_sessionVars => SessionIInv'
  BY SessionNextType, NextIssued, NextUsable, NextEnded DEF SessionIInv
<1>2. QED
  BY SessionInitInv, <1>1, PTL DEF SessionSpec

\* A family has one usable token, and one more for each refresh whose last UPDATE
\* found its token revoked, however many refreshes race, are retried or die.
THEOREM RotationKeepsOne == SessionSpec => []OneUsableToken
<1>1. SessionIInv => OneUsableToken
  BY DEF SessionIInv
<1>2. QED
  BY SessionInvariant, <1>1, PTL

\* No token of an ended session is live again, for any tokens and calls, but for
\* what EndedStaysEnded excepts.
THEOREM EndIsFinal == SessionSpec => []EndedStaysEnded
<1>1. SessionIInv => EndedStaysEnded
  BY DEF SessionIInv
<1>2. QED
  BY SessionInvariant, <1>1, PTL

HIDE SessionAssumption DEF SessionAssumption
-----------------------------------------------------------------------------
(* The attempts of a quiz. *)

\* What kind of call is at which statement, and what a submission is about.
KindInv == \A c \in QuizCalls :
  /\ quizPc[c] \in {"idle", "read", "respond"} => ~isStart[c]
  /\ quizPc[c] \in {"count", "assemble", "insert"} => isStart[c]
  /\ quizPc[c] # "idle" /\ ~isStart[c] =>
       attempt[c] \in attempts /\ submission[c] \in 1..MaxSubmissions

\* The number a call inserts is allowed, and no gap before it.
NumberInv == \A c \in QuizCalls : quizPc[c] \in {"assemble", "insert"} =>
  attempt[c] \in 1..AttemptsAllowed /\ attempt[c] <= Cardinality(attempts) + 1

Row(a, s, q) == <<a, s, q>> \in responses

\* A scored attempt has its responses, all of them.
ScoredInv == \A a \in AttemptNos : scoredBy[a] # 0 =>
  a \in attempts /\ \A q \in Questions : Row(a, scoredBy[a], q)

\* Who is at an attempt, and whose responses it has.
Sole(a) ==
  /\ \A c, d \in Submitting(a) : c = d
  /\ scoredBy[a] # 0 => Submitting(a) = {}
  /\ \A s \in 1..MaxSubmissions, q \in Questions : Row(a, s, q) =>
       \/ scoredBy[a] = s
       \/ scoredBy[a] = 0 /\ \E c \in Submitting(a) : submission[c] = s

SoleInv == \A a \in attempts \ contested : Sole(a)

QuizIInv == QuizTypeOK /\ KindInv /\ NumberInv /\ AllowanceKept /\ ScoredInv /\ SoleInv

-----------------------------------------------------------------------------
USE QuizAssumption DEF QuizAssumption

LEMMA QuizInitInv == QuizInit => QuizIInv
<1> SUFFICES ASSUME QuizInit PROVE QuizIInv
  OBVIOUS
<1> USE DEF QuizInit
<1>1. QuizTypeOK
  BY DEF QuizTypeOK, AttemptNos
<1>2. Cardinality({}) = 0
  BY FS_EmptySet
<1>3. AllowanceKept
  BY <1>2 DEF AllowanceKept
<1>4. KindInv /\ NumberInv /\ ScoredInv /\ SoleInv
  BY DEF KindInv, NumberInv, ScoredInv, SoleInv
<1>5. QED
  BY <1>1, <1>3, <1>4 DEF QuizIInv

LEMMA AttemptCount ==
  ASSUME QuizTypeOK
  PROVE  IsFiniteSet(attempts) /\ Cardinality(attempts) \in Nat
<1>1. IsFiniteSet(AttemptNos)
  BY FS_Interval DEF AttemptNos
<1>2. QED
  BY <1>1, FS_Subset, FS_CardinalityType DEF QuizTypeOK

LEMMA QuizCallEnds ==
  ASSUME QuizTypeOK, NEW c \in QuizCalls, EndQuizCall(c)
  PROVE  /\ quizPc' \in [QuizCalls -> {"idle", "connect", "count", "assemble", "insert", "read", "respond"}]
         /\ isStart' \in [QuizCalls -> BOOLEAN]
         /\ attempt' \in [QuizCalls -> AttemptNos \union {0}]
         /\ submission' \in [QuizCalls -> 0..MaxSubmissions]
         /\ quizPc'[c] = "idle" /\ ~isStart'[c]
         /\ \A d \in QuizCalls \ {c} :
              /\ quizPc'[d] = quizPc[d] /\ isStart'[d] = isStart[d]
              /\ attempt'[d] = attempt[d] /\ submission'[d] = submission[d]
  BY DEF QuizTypeOK, EndQuizCall

LEMMA QuizNextType ==
  ASSUME QuizTypeOK, KindInv, NumberInv, AllowanceKept, [QuizNext]_quizVars
  PROVE  QuizTypeOK'
<1> USE DEF QuizTypeOK
<1>0. Cardinality(attempts) \in Nat
  BY AttemptCount
<1>1. ASSUME NEW c \in QuizCalls, BeginStart(c) PROVE QuizTypeOK'
  BY <1>1 DEF BeginStart
<1>2. ASSUME NEW c \in QuizCalls, BeginSubmit(c) PROVE QuizTypeOK'
  <2>1. submissions + 1 \in 0..MaxSubmissions
    BY <1>2 DEF BeginSubmit
  <2>2. attempt' \in [QuizCalls -> AttemptNos \union {0}]
    BY <1>2 DEF BeginSubmit
  <2>3. QED
    BY <1>2, <2>1, <2>2 DEF BeginSubmit
<1>3. ASSUME NEW c \in QuizCalls, Connect(c) \/ Assemble(c) PROVE QuizTypeOK'
  BY <1>3 DEF Connect, Assemble, QuizGoto
<1>4. ASSUME NEW c \in QuizCalls, WaitEnds(c) PROVE QuizTypeOK'
  BY <1>4, QuizCallEnds DEF WaitEnds
<1>5. ASSUME NEW c \in QuizCalls, CountPrior(c) PROVE QuizTypeOK'
  <2>1. Cardinality(attempts) + 1 \in AttemptNos
    BY <1>0 DEF AllowanceKept, AttemptNos
  <2>2. CASE EndQuizCall(c)
    BY <1>5, <2>2, QuizCallEnds DEF CountPrior
  <2>3. CASE ~NoAttemptsLeft
    BY <1>5, <2>1, <2>3 DEF CountPrior
  <2>4. QED
    BY <1>5, <2>2, <2>3 DEF CountPrior
<1>6. ASSUME NEW c \in QuizCalls, InsertAttempt(c) PROVE QuizTypeOK'
  <2>1. attempt[c] \in AttemptNos
    BY <1>6 DEF InsertAttempt, NumberInv, AttemptNos
  <2>2. QED
    BY <1>6, <2>1, QuizCallEnds DEF InsertAttempt
<1>7. ASSUME NEW c \in QuizCalls, ReadAttempt(c) PROVE QuizTypeOK'
  <2>1. attempt[c] \in attempts
    BY <1>7 DEF ReadAttempt, KindInv
  <2>2. CASE EndQuizCall(c) /\ UNCHANGED contested
    BY <1>7, <2>2, QuizCallEnds DEF ReadAttempt
  <2>3. CASE QuizGoto(c, "respond")
    BY <1>7, <2>1, <2>3 DEF ReadAttempt, QuizGoto
  <2>4. QED
    BY <1>7, <2>2, <2>3 DEF ReadAttempt
<1>8. ASSUME NEW c \in QuizCalls, StoreResponse(c) PROVE QuizTypeOK'
  <2>1. attempt[c] \in attempts /\ submission[c] \in 1..MaxSubmissions
    BY <1>8 DEF StoreResponse, KindInv
  <2>2. responses' \subseteq attempts \X (1..MaxSubmissions) \X Questions
    BY <1>8, <2>1 DEF StoreResponse
  <2>3. QED
    BY <1>8, <2>2 DEF StoreResponse, quizLocals
<1>9. ASSUME NEW c \in QuizCalls, ScoreAttempt(c) PROVE QuizTypeOK'
  <2>1. attempt[c] \in attempts /\ submission[c] \in 1..MaxSubmissions
    BY <1>9 DEF ScoreAttempt, KindInv
  <2>2. responses' \subseteq attempts \X (1..MaxSubmissions) \X Questions
    BY <1>9, <2>1 DEF ScoreAttempt
  <2>3. scoredBy' \in [AttemptNos -> 0..MaxSubmissions]
    BY <1>9, <2>1 DEF ScoreAttempt
  <2>4. QED
    BY <1>9, <2>2, <2>3, QuizCallEnds DEF ScoreAttempt
<1>10. ASSUME NEW c \in QuizCalls, QuizCallFails(c) PROVE QuizTypeOK'
  <2>1. contested' \subseteq attempts
    BY <1>10 DEF QuizCallFails, KindInv
  <2>2. QED
    BY <1>10, <2>1, QuizCallEnds DEF QuizCallFails
<1>11. CASE UNCHANGED quizVars
  BY <1>11 DEF quizVars, quizLocals
<1>12. QED
  BY <1>1, <1>2, <1>3, <1>4, <1>5, <1>6, <1>7, <1>8, <1>9, <1>10, <1>11 DEF QuizNext, QuizStep

\* A call that goes on stays of its kind and about its attempt.
LEMMA NextKind ==
  ASSUME QuizTypeOK, KindInv, [QuizNext]_quizVars
  PROVE  KindInv'
<1> USE DEF QuizTypeOK, KindInv
<1>1. ASSUME NEW c \in QuizCalls, BeginStart(c) PROVE KindInv'
  BY <1>1 DEF BeginStart
<1>2. ASSUME NEW c \in QuizCalls, BeginSubmit(c) PROVE KindInv'
  <2>1. submissions + 1 \in 1..MaxSubmissions /\ submission'[c] = submissions + 1
    BY <1>2 DEF BeginSubmit
  <2>2. attempt'[c] \in attempts
    BY <1>2 DEF BeginSubmit
  <2>3. \A d \in QuizCalls \ {c} :
          quizPc'[d] = quizPc[d] /\ attempt'[d] = attempt[d] /\ submission'[d] = submission[d]
    BY <1>2 DEF BeginSubmit
  <2>4. quizPc'[c] = "connect" /\ UNCHANGED <<isStart, attempts>>
    BY <1>2 DEF BeginSubmit
  <2>5. QED
    BY <2>1, <2>2, <2>3, <2>4
<1>3. ASSUME NEW c \in QuizCalls, Connect(c) \/ Assemble(c) PROVE KindInv'
  BY <1>3 DEF Connect, Assemble, QuizGoto
<1>4. ASSUME NEW c \in QuizCalls, EndQuizCall(c), attempts \subseteq attempts' PROVE KindInv'
  BY <1>4, QuizCallEnds
<1>5. ASSUME NEW c \in QuizCalls, CountPrior(c) PROVE KindInv'
  BY <1>4, <1>5 DEF CountPrior
<1>6. ASSUME NEW c \in QuizCalls, ReadAttempt(c) PROVE KindInv'
  BY <1>4, <1>6 DEF ReadAttempt, QuizGoto
<1>7. ASSUME NEW c \in QuizCalls, StoreResponse(c) PROVE KindInv'
  BY <1>7 DEF StoreResponse, quizLocals
<1>8. ASSUME NEW c \in QuizCalls, WaitEnds(c) \/ InsertAttempt(c) \/ ScoreAttempt(c) \/ QuizCallFails(c)
      PROVE  KindInv'
  BY <1>4, <1>8 DEF WaitEnds, InsertAttempt, ScoreAttempt, QuizCallFails
<1>9. CASE UNCHANGED quizVars
  BY <1>9 DEF quizVars, quizLocals
<1>10. QED
  BY <1>1, <1>2, <1>3, <1>5, <1>6, <1>7, <1>8, <1>9 DEF QuizNext, QuizStep

\* A number counted stays one that leaves no gap: attempts are never removed.
LEMMA NextAllowance ==
  ASSUME QuizTypeOK, KindInv, NumberInv, AllowanceKept, [QuizNext]_quizVars
  PROVE  NumberInv' /\ AllowanceKept'
<1> USE DEF QuizTypeOK
<1>0. IsFiniteSet(attempts) /\ Cardinality(attempts) \in Nat
  BY AttemptCount
<1>1. ASSUME UNCHANGED attempts,
             \A d \in QuizCalls : quizPc'[d] \in {"assemble", "insert"} =>
               quizPc[d] \in {"assemble", "insert"} /\ attempt'[d] = attempt[d]
      PROVE  NumberInv' /\ AllowanceKept'
  BY <1>1 DEF NumberInv, AllowanceKept
<1>2. ASSUME NEW c \in QuizCalls, BeginStart(c) \/ BeginSubmit(c) PROVE NumberInv' /\ AllowanceKept'
  <2>1. CASE BeginStart(c)
    BY <1>1, <2>1 DEF BeginStart
  <2>2. CASE BeginSubmit(c)
    <3>1. \A d \in QuizCalls : quizPc'[d] \in {"assemble", "insert"} =>
            quizPc[d] = quizPc'[d] /\ attempt'[d] = attempt[d]
      BY <2>2 DEF BeginSubmit
    <3>2. UNCHANGED attempts
      BY <2>2 DEF BeginSubmit
    <3>3. QED
      BY <1>1, <3>1, <3>2
  <2>3. QED
    BY <1>2, <2>1, <2>2
<1>3. ASSUME NEW c \in QuizCalls, Connect(c) \/ Assemble(c) PROVE NumberInv' /\ AllowanceKept'
  BY <1>1, <1>3 DEF Connect, Assemble, QuizGoto
<1>4. ASSUME NEW c \in QuizCalls, EndQuizCall(c), UNCHANGED attempts PROVE NumberInv' /\ AllowanceKept'
  BY <1>1, <1>4, QuizCallEnds
<1>5. ASSUME NEW c \in QuizCalls, CountPrior(c) PROVE NumberInv' /\ AllowanceKept'
  <2>1. CASE ~NoAttemptsLeft /\ attempt' = [attempt EXCEPT ![c] = Cardinality(attempts) + 1]
                 /\ quizPc' = [quizPc EXCEPT ![c] = "assemble"]
    <3>1. Cardinality(attempts) + 1 \in 1..AttemptsAllowed
      BY <1>0, <2>1 DEF NoAttemptsLeft
    <3>2. attempt'[c] = Cardinality(attempts) + 1 /\ \A d \in QuizCalls \ {c} : attempt'[d] = attempt[d]
      BY <2>1
    <3>3. \A d \in QuizCalls \ {c} : quizPc'[d] = quizPc[d]
      BY <2>1
    <3>4. UNCHANGED attempts
      BY <1>5 DEF CountPrior
    <3>5. NumberInv'
      BY <1>0, <3>1, <3>2, <3>3, <3>4 DEF NumberInv
    <3>6. QED
      BY <3>4, <3>5 DEF AllowanceKept
  <2>2. QED
    BY <1>4, <1>5, <2>1 DEF CountPrior
<1>6. ASSUME NEW c \in QuizCalls, InsertAttempt(c) PROVE NumberInv' /\ AllowanceKept'
  <2> DEFINE n == Cardinality(attempts)
  <2>1. attempt[c] \in 1..AttemptsAllowed /\ attempt[c] <= n + 1 /\ attempts = 1..n
    BY <1>6 DEF InsertAttempt, NumberInv, AllowanceKept
  <2>2. attempts' = attempts \union {attempt[c]}
    BY <1>6 DEF InsertAttempt
  <2>3. Cardinality(attempts') = IF attempt[c] \in attempts THEN n ELSE n + 1
    BY <1>0, <2>2, FS_AddElement
  <2>4. CASE attempt[c] \in attempts
    <3>1. UNCHANGED attempts
      BY <2>2, <2>4
    <3>2. QED
      BY <1>4, <1>6, <3>1 DEF InsertAttempt
  <2>5. CASE attempt[c] \notin attempts
    <3>1. attempt[c] = n + 1
      BY <1>0, <2>1, <2>5
    <3>2. attempts' = 1..n + 1 /\ Cardinality(attempts') = n + 1
      BY <1>0, <2>1, <2>2, <2>3, <2>5, <3>1
    <3>3. AllowanceKept'
      BY <1>0, <2>1, <3>1, <3>2 DEF AllowanceKept
    <3>4. \A d \in QuizCalls : quizPc'[d] \in {"assemble", "insert"} =>
            quizPc[d] = quizPc'[d] /\ attempt[d] = attempt'[d]
      BY <1>6, QuizCallEnds DEF InsertAttempt
    <3>5. NumberInv'
      BY <1>0, <3>2, <3>4 DEF NumberInv
    <3>6. QED
      BY <3>3, <3>5
  <2>6. QED
    BY <2>4, <2>5
<1>7. ASSUME NEW c \in QuizCalls, ReadAttempt(c) PROVE NumberInv' /\ AllowanceKept'
  <2>1. CASE QuizGoto(c, "respond")
    BY <1>1, <1>7, <2>1 DEF ReadAttempt, QuizGoto
  <2>2. QED
    BY <1>4, <1>7, <2>1 DEF ReadAttempt
<1>8. ASSUME NEW c \in QuizCalls, StoreResponse(c) PROVE NumberInv' /\ AllowanceKept'
  BY <1>8 DEF StoreResponse, quizLocals, NumberInv, AllowanceKept
<1>9. ASSUME NEW c \in QuizCalls, WaitEnds(c) \/ ScoreAttempt(c) \/ QuizCallFails(c)
      PROVE  NumberInv' /\ AllowanceKept'
  BY <1>4, <1>9 DEF WaitEnds, ScoreAttempt, QuizCallFails
<1>10. CASE UNCHANGED quizVars
  BY <1>10 DEF quizVars, quizLocals, NumberInv, AllowanceKept
<1>11. QED
  BY <1>2, <1>3, <1>5, <1>6, <1>7, <1>8, <1>9, <1>10 DEF QuizNext, QuizStep

\* Responses are of a call that found the attempt in progress, alone at it.
LEMMA NextScored ==
  ASSUME QuizTypeOK, KindInv, ScoredInv, [QuizNext]_quizVars
  PROVE  ScoredInv'
<1> USE DEF QuizTypeOK, KindInv
<1>1. ASSUME UNCHANGED <<attempts, scoredBy>>, responses \subseteq responses' PROVE ScoredInv'
  BY <1>1 DEF ScoredInv, Row
<1>2. ASSUME NEW c \in QuizCalls, InsertAttempt(c) PROVE ScoredInv'
  BY <1>2 DEF InsertAttempt, ScoredInv, Row
<1>3. ASSUME NEW c \in QuizCalls, ScoreAttempt(c) PROVE ScoredInv'
  <2> DEFINE a == attempt[c]
  <2>1. a \in attempts /\ UNCHANGED attempts /\ responses \subseteq responses'
    BY <1>3 DEF ScoreAttempt
  <2>2. \A q \in Questions : <<a, submission[c], q>> \in responses'
    BY <1>3 DEF ScoreAttempt
  <2>3. scoredBy'[a] = submission[c] /\ \A b \in AttemptNos \ {a} : scoredBy'[b] = scoredBy[b]
    BY <1>3, <2>1 DEF ScoreAttempt
  <2>4. QED
    BY <2>1, <2>2, <2>3 DEF ScoredInv, Row
<1>4. ASSUME NEW c \in QuizCalls, StoreResponse(c) PROVE ScoredInv'
  BY <1>1, <1>4 DEF StoreResponse
<1>5. ASSUME NEW c \in QuizCalls, BeginStart(c) \/ BeginSubmit(c) PROVE ScoredInv'
  BY <1>1, <1>5 DEF BeginStart, BeginSubmit
<1>6. ASSUME NEW c \in QuizCalls, Connect(c) \/ WaitEnds(c) \/ CountPrior(c) \/ Assemble(c)
      PROVE  ScoredInv'
  BY <1>1, <1>6 DEF Connect, WaitEnds, CountPrior, Assemble
<1>7. ASSUME NEW c \in QuizCalls, ReadAttempt(c) \/ QuizCallFails(c) PROVE ScoredInv'
  BY <1>1, <1>7 DEF ReadAttempt, QuizCallFails
<1>8. CASE UNCHANGED quizVars
  BY <1>1, <1>8 DEF quizVars
<1>9. QED
  BY <1>2, <1>3, <1>4, <1>5, <1>6, <1>7, <1>8 DEF QuizNext, QuizStep

\* While an attempt is not contested, whoever stores a response of it, scores it
\* or gives it up is the one submission that is at it.
LEMMA NextSole ==
  ASSUME QuizTypeOK, KindInv, SoleInv, [QuizNext]_quizVars
  PROVE  SoleInv'
<1> USE DEF QuizTypeOK, KindInv
<1>0. KindInv'
  BY NextKind
<1>1. \A a : Submitting(a) = {c \in QuizCalls : quizPc[c] = "respond" /\ attempt[c] = a}
  BY DEF Submitting
<1>2. \A a : Submitting(a)' = {c \in QuizCalls : quizPc'[c] = "respond" /\ attempt'[c] = a}
  BY <1>0 DEF Submitting
<1>x. ASSUME NEW a, Sole(a), Submitting(a)' = Submitting(a), scoredBy'[a] = scoredBy[a],
             \A d \in Submitting(a) : submission'[d] = submission[d],
             \A s \in 1..MaxSubmissions, q \in Questions : <<a, s, q>> \in responses' => <<a, s, q>> \in responses
      PROVE  Sole(a)'
  BY <1>x DEF Sole, Row
<1>3. ASSUME UNCHANGED <<attempts, scoredBy, responses>>, contested \subseteq contested',
             \A d \in QuizCalls :
               /\ quizPc'[d] = "respond" <=> quizPc[d] = "respond"
               /\ quizPc[d] = "respond" => attempt'[d] = attempt[d] /\ submission'[d] = submission[d]
      PROVE  SoleInv'
  <2>1. \A a : Submitting(a)' = Submitting(a)
    BY <1>1, <1>2, <1>3
  <2>2. \A a : \A d \in Submitting(a) : submission'[d] = submission[d]
    BY <1>1, <1>3
  <2>3. QED
    BY <1>x, <1>3, <2>1, <2>2 DEF SoleInv
<1>4. ASSUME NEW c \in QuizCalls, BeginStart(c) PROVE SoleInv'
  BY <1>3, <1>4 DEF BeginStart
<1>5. ASSUME NEW c \in QuizCalls, BeginSubmit(c) PROVE SoleInv'
  <2>1. \A d \in QuizCalls :
          /\ quizPc'[d] = "respond" <=> quizPc[d] = "respond"
          /\ quizPc[d] = "respond" => attempt'[d] = attempt[d] /\ submission'[d] = submission[d]
    BY <1>5 DEF BeginSubmit
  <2>2. UNCHANGED <<attempts, scoredBy, responses, contested>>
    BY <1>5 DEF BeginSubmit
  <2>3. QED
    BY <1>3, <2>1, <2>2
<1>6. ASSUME NEW c \in QuizCalls, Connect(c) \/ Assemble(c) PROVE SoleInv'
  BY <1>3, <1>6 DEF Connect, Assemble, QuizGoto
<1>7. ASSUME NEW c \in QuizCalls, EndQuizCall(c), quizPc[c] # "respond",
             UNCHANGED <<attempts, scoredBy, responses>>, contested \subseteq contested'
      PROVE  SoleInv'
  BY <1>3, <1>7, QuizCallEnds
<1>8. ASSUME NEW c \in QuizCalls, WaitEnds(c) PROVE SoleInv'
  BY <1>7, <1>8 DEF WaitEnds
<1>9. ASSUME NEW c \in QuizCalls, CountPrior(c) PROVE SoleInv'
  <2>1. CASE ~NoAttemptsLeft
    BY <1>3, <1>9, <2>1 DEF CountPrior
  <2>2. QED
    BY <1>7, <1>9, <2>1 DEF CountPrior
<1>10. ASSUME NEW c \in QuizCalls, InsertAttempt(c) PROVE SoleInv'
  <2>1. SUFFICES ASSUME NEW a \in attempts', a \notin contested PROVE Sole(a)'
    BY <1>10 DEF InsertAttempt, SoleInv
  <2>2. \A b : Submitting(b)' = Submitting(b)
    <3>1. /\ quizPc[c] = "insert" /\ quizPc'[c] = "idle"
          /\ \A d \in QuizCalls \ {c} : quizPc'[d] = quizPc[d] /\ attempt'[d] = attempt[d]
      BY <1>10, QuizCallEnds DEF InsertAttempt
    <3>2. QED
      BY <1>1, <1>2, <3>1
  <2>3. \A d \in Submitting(a) : submission'[d] = submission[d]
    BY <1>1, <1>10, QuizCallEnds DEF InsertAttempt
  <2>4. CASE a \in attempts
    BY <1>x, <1>10, <2>1, <2>2, <2>3, <2>4 DEF InsertAttempt, SoleInv
  <2>5. CASE a \notin attempts
    <3>1. Submitting(a) = {}
      BY <1>1, <2>5
    <3>2. \A s \in 1..MaxSubmissions, q \in Questions : ~Row(a, s, q)
      BY <2>5 DEF Row
    <3>3. Sole(a)
      BY <3>1, <3>2 DEF Sole
    <3>4. QED
      BY <1>x, <1>10, <2>2, <2>3, <3>3 DEF InsertAttempt
  <2>6. QED
    BY <2>4, <2>5
<1>11. ASSUME NEW c \in QuizCalls, ReadAttempt(c) PROVE SoleInv'
  <2> DEFINE a == attempt[c]
  <2>1. CASE EndQuizCall(c) /\ UNCHANGED contested
    BY <1>7, <1>11, <2>1 DEF ReadAttempt
  <2>2. CASE /\ scoredBy[a] = 0 /\ QuizGoto(c, "respond")
             /\ contested' = IF Submitting(a) = {} THEN contested ELSE contested \union {a}
    <3>1. /\ UNCHANGED <<attempts, scoredBy, responses, submission, attempt>>
          /\ \A d \in QuizCalls \ {c} : quizPc'[d] = quizPc[d]
          /\ quizPc[c] = "read" /\ quizPc'[c] = "respond" /\ a \in attempts
      BY <1>11, <2>2 DEF ReadAttempt, QuizGoto
    <3>2. SUFFICES ASSUME NEW b \in attempts, b \notin contested' PROVE Sole(b)'
      BY <3>1 DEF SoleInv
    <3>3. b \notin contested /\ Sole(b)
      BY <2>2, <3>2 DEF SoleInv
    <3>4. CASE b # a
      <4>1. Submitting(b)' = Submitting(b)
        BY <1>1, <1>2, <3>1, <3>4
      <4>2. QED
        BY <1>x, <3>1, <3>3, <4>1
    <3>5. CASE b = a
      <4>1. Submitting(a) = {}
        BY <2>2, <3>2, <3>5
      <4>2. Submitting(a)' = {c}
        BY <1>1, <1>2, <3>1, <4>1
      <4>3. \A s \in 1..MaxSubmissions, q \in Questions : ~Row(a, s, q)
        BY <2>2, <3>3, <3>5, <4>1 DEF Sole
      <4>4. scoredBy'[a] = 0 /\ \A s \in 1..MaxSubmissions, q \in Questions : ~Row(a, s, q)'
        BY <2>2, <3>1, <4>3 DEF Row
      <4>5. QED
        BY <3>1, <3>5, <4>2, <4>4 DEF Sole
    <3>6. QED
      BY <3>4, <3>5
  <2>3. QED
    BY <1>11, <2>1, <2>2 DEF ReadAttempt
<1>12. ASSUME NEW c \in QuizCalls, StoreResponse(c) PROVE SoleInv'
  <2> DEFINE a == attempt[c]
  <2>1. UNCHANGED <<attempts, scoredBy, contested, quizPc, isStart, attempt, submission>>
    BY <1>12 DEF StoreResponse, quizLocals
  <2>2. PICK r \in Questions : responses' = responses \union {<<a, submission[c], r>>}
    BY <1>12 DEF StoreResponse
  <2>3. \A b : Submitting(b)' = Submitting(b)
    BY <1>1, <1>2, <2>1
  <2>4. c \in Submitting(a)
    BY <1>1, <1>12 DEF StoreResponse
  <2>5. SUFFICES ASSUME NEW b \in attempts \ contested PROVE Sole(b)'
    BY <2>1 DEF SoleInv
  <2>6. Sole(b)
    BY <2>5 DEF SoleInv
  <2>7. CASE b # a
    BY <1>x, <2>1, <2>2, <2>3, <2>6, <2>7
  <2>8. CASE b = a
    <3>1. scoredBy[a] = 0 /\ \A d, e \in Submitting(a) : d = e
      BY <2>4, <2>6, <2>8 DEF Sole
    <3>2. \A s \in 1..MaxSubmissions, q \in Questions :
            <<a, s, q>> \in responses' => Row(a, s, q) \/ s = submission[c]
      BY <2>2 DEF Row
    <3>3. \A s \in 1..MaxSubmissions, q \in Questions :
            Row(a, s, q) => \E d \in Submitting(a) : submission[d] = s
      BY <2>6, <2>8, <3>1 DEF Sole
    <3>4. \A s \in 1..MaxSubmissions, q \in Questions :
            <<a, s, q>> \in responses' => \E d \in Submitting(a)' : submission'[d] = s
      BY <2>1, <2>3, <2>4, <3>2, <3>3
    <3>5. QED
      BY <2>1, <2>3, <2>8, <3>1, <3>4 DEF Sole, Row
  <2>9. QED
    BY <2>7, <2>8
<1>13. ASSUME NEW c \in QuizCalls, ScoreAttempt(c) PROVE SoleInv'
  <2>0. PICK a \in attempts : a = attempt[c]
    BY <1>13 DEF ScoreAttempt
  <2>1. /\ UNCHANGED <<attempts, contested>> /\ submission[c] \in 1..MaxSubmissions
        /\ scoredBy' = [scoredBy EXCEPT ![a] = submission[c]]
        /\ responses' = responses \union {<<a, submission[c], q>> : q \in Questions}
    BY <1>13, <2>0 DEF ScoreAttempt
  <2>2. c \in Submitting(a)
    BY <1>1, <1>13, <2>0 DEF ScoreAttempt
  <2>3. /\ quizPc[c] = "respond" /\ quizPc'[c] = "idle"
        /\ \A d \in QuizCalls \ {c} :
             quizPc'[d] = quizPc[d] /\ attempt'[d] = attempt[d] /\ submission'[d] = submission[d]
    BY <1>13, QuizCallEnds DEF ScoreAttempt
  <2>4. \A b : Submitting(b)' = Submitting(b) \ {c}
    BY <1>1, <1>2, <2>3
  <2>5. SUFFICES ASSUME NEW b \in attempts \ contested PROVE Sole(b)'
    BY <2>1 DEF SoleInv
  <2>6. Sole(b)
    BY <2>5 DEF SoleInv
  <2>7. CASE b # a
    <3>1. c \notin Submitting(b)
      BY <1>1, <2>0, <2>7
    <3>2. Submitting(b)' = Submitting(b)
      BY <2>4, <3>1
    <3>3. \A d \in Submitting(b) : submission'[d] = submission[d]
      BY <1>1, <2>3, <3>1
    <3>4. scoredBy'[b] = scoredBy[b]
      BY <2>1, <2>7
    <3>5. QED
      BY <1>x, <2>1, <2>6, <2>7, <3>2, <3>3, <3>4
  <2>8. CASE b = a
    <3>1. Submitting(a)' = {}
      BY <2>2, <2>4, <2>6, <2>8 DEF Sole
    <3>2. scoredBy[a] = 0 /\ scoredBy'[a] = submission[c]
      BY <2>1, <2>2, <2>6, <2>8 DEF Sole
    <3>3. \A s \in 1..MaxSubmissions, q \in Questions : Row(a, s, q) => s = submission[c]
      BY <2>1, <2>2, <2>6, <2>8, <3>2 DEF Sole
    <3>4. \A s \in 1..MaxSubmissions, q \in Questions : <<a, s, q>> \in responses' => s = submission[c]
      BY <2>1, <3>3 DEF Row
    <3>5. QED
      BY <2>8, <3>1, <3>2, <3>4 DEF Sole, Row
  <2>9. QED
    BY <2>7, <2>8
<1>14. ASSUME NEW c \in QuizCalls, QuizCallFails(c) PROVE SoleInv'
  <2>1. CASE quizPc[c] # "respond"
    BY <1>7, <1>14, <2>1 DEF QuizCallFails
  <2>2. CASE quizPc[c] = "respond"
    <3>0. PICK a \in attempts : a = attempt[c]
      BY <2>2
    <3>1. /\ UNCHANGED <<attempts, scoredBy, responses>> /\ ~isStart[c]
          /\ contested' = IF Stored(c) # {} THEN contested \union {a} ELSE contested
      BY <1>14, <2>2, <3>0 DEF QuizCallFails
    <3>2. /\ quizPc'[c] = "idle"
          /\ \A d \in QuizCalls \ {c} :
               quizPc'[d] = quizPc[d] /\ attempt'[d] = attempt[d] /\ submission'[d] = submission[d]
      BY <1>14, QuizCallEnds DEF QuizCallFails
    <3>3. \A b : Submitting(b)' = Submitting(b) \ {c}
      BY <1>1, <1>2, <2>2, <3>2
    <3>4. SUFFICES ASSUME NEW b \in attempts, b \notin contested' PROVE Sole(b)'
      BY <3>1 DEF SoleInv
    <3>5. Sole(b)
      BY <3>1, <3>4 DEF SoleInv
    <3>6. CASE b # a
      <4>1. c \notin Submitting(b)
        BY <1>1, <3>0, <3>6
      <4>2. Submitting(b)' = Submitting(b)
        BY <3>3, <4>1
      <4>3. \A d \in Submitting(b) : submission'[d] = submission[d]
        BY <1>1, <3>2, <4>1
      <4>4. QED
        BY <1>x, <3>1, <3>5, <4>2, <4>3
    <3>7. CASE b = a
      <4>1. c \in Submitting(a)
        BY <1>1, <2>2, <3>0
      <4>2. Submitting(a)' = {} /\ scoredBy[a] = 0
        BY <3>3, <3>5, <3>7, <4>1 DEF Sole
      <4>3. Stored(c) = {}
        BY <3>1, <3>4, <3>7
      <4>4. \A s \in 1..MaxSubmissions, q \in Questions : Row(a, s, q) => s = submission[c]
        BY <2>2, <3>1, <3>5, <3>7, <4>1, <4>2 DEF Sole
      <4>5. \A q \in Questions : ~Row(a, submission[c], q)
        BY <3>0, <4>3 DEF Stored, Row
      <4>6. \A s \in 1..MaxSubmissions, q \in Questions : <<a, s, q>> \notin responses'
        BY <3>1, <4>4, <4>5 DEF Row
      <4>7. QED
        BY <3>1, <3>7, <4>2, <4>6 DEF Sole, Row
    <3>8. QED
      BY <3>6, <3>7
  <2>3. QED
    BY <2>1, <2>2
<1>15. CASE UNCHANGED quizVars
  BY <1>3, <1>15 DEF quizVars, quizLocals
<1>16. QED
  BY <1>4, <1>5, <1>6, <1>8, <1>9, <1>10, <1>11, <1>12, <1>13, <1>14, <1>15 DEF QuizNext, QuizStep

LEMMA QuizStepKeeps == QuizIInv /\ [QuizNext]_quizVars => QuizIInv'
  BY QuizNextType, NextKind, NextAllowance, NextScored, NextSole DEF QuizIInv

\* The inductive invariant: what a call has counted is still a number without a
\* gap before it, and an attempt that is not contested has one submission at it.
THEOREM QuizInvariant == QuizSpec => []QuizIInv
  BY QuizInitInv, QuizStepKeeps, PTL DEF QuizSpec

\* A learner gets no more attempts than the quiz allows, numbered without a gap,
\* however many calls count at once, wait for a connection, fail or die.
THEOREM AllowanceIsKept == QuizSpec => []AllowanceKept
<1>1. QuizIInv => AllowanceKept
  BY DEF QuizIInv
<1>2. QED
  BY QuizInvariant, <1>1, PTL

\* A score that is set is of the responses that are stored with it.
LEMMA ScoresAreOfResponses == QuizIInv => ScoreIsOfResponses
<1>1. SUFFICES ASSUME QuizIInv, NEW a \in attempts, scoredBy[a] # 0
               PROVE  LET own == {<<a, scoredBy[a], q>> : q \in Questions}
                          all == {r \in responses : r[1] = a}
                      IN  own \subseteq all /\ (a \notin contested => all = own)
  BY DEF ScoreIsOfResponses
<1> DEFINE own == {<<a, scoredBy[a], q>> : q \in Questions}
           all == {r \in responses : r[1] = a}
<1>2. a \in AttemptNos /\ responses \subseteq attempts \X (1..MaxSubmissions) \X Questions
  BY <1>1 DEF QuizIInv, QuizTypeOK
<1>3. own \subseteq all
  BY <1>1, <1>2 DEF QuizIInv, ScoredInv, Row
<1>4. ASSUME a \notin contested, NEW r \in all PROVE r \in own
  <2>1. PICK s \in 1..MaxSubmissions, q \in Questions : r = <<a, s, q>>
    BY <1>2, <1>4
  <2>2. s = scoredBy[a]
    BY <1>1, <1>4, <2>1 DEF QuizIInv, SoleInv, Sole, Row
  <2>3. QED
    BY <2>1, <2>2
<1>5. QED
  BY <1>3, <1>4

\* A score is that of the responses stored with it, for any questions and any
\* number of submissions, but for what ScoreIsOfResponses excepts.
THEOREM ScoreHasItsResponses == QuizSpec => []ScoreIsOfResponses
  BY QuizInvariant, ScoresAreOfResponses, PTL

HIDE QuizAssumption DEF QuizAssumption
-----------------------------------------------------------------------------
(* The ceiling on calls of the model. *)

\* Calls that have paid for the model and are about to charge the day.
Charging(d) == {c \in ChatCalls : chatPc[c] = "charge" /\ chatDate[c] = d}

\* Calls that have passed the day's ceiling and have not charged it.
Passed(d) == {c \in ChatCalls : chatPc[c] # "idle" /\ chatDate[c] = d}

LedgerInv == \A d \in Days : spent[d] = usage[d] + uncharged[d] + Cardinality(Charging(d))

PassedInv == \A d \in Days : usage[d] + Cardinality(Passed(d)) <= Ceiling + Cardinality(ChatCalls) - 1

CeilingIInv == ChatTypeOK /\ LedgerInv /\ PassedInv

-----------------------------------------------------------------------------
USE CeilingAssumption DEF CeilingAssumption

LEMMA CallSets ==
  ASSUME NEW S, S \subseteq ChatCalls
  PROVE  IsFiniteSet(S) /\ Cardinality(S) \in Nat /\ Cardinality(S) <= Cardinality(ChatCalls)
  BY FS_Subset, FS_CardinalityType

LEMMA MoreCalls ==
  ASSUME NEW S, S \subseteq ChatCalls, NEW c \in ChatCalls, c \notin S
  PROVE  Cardinality(S \union {c}) = Cardinality(S) + 1
  BY CallSets, FS_AddElement

LEMMA FewerCalls ==
  ASSUME NEW S, S \subseteq ChatCalls, NEW c \in S
  PROVE  Cardinality(S \ {c}) = Cardinality(S) - 1
  BY CallSets, FS_RemoveElement

LEMMA CeilingInitInv == ChatInit => CeilingIInv
<1> SUFFICES ASSUME ChatInit PROVE CeilingIInv
  OBVIOUS
<1>1. ChatTypeOK
  BY DEF ChatInit, ChatTypeOK, Days
<1>2. \A d \in Days : Charging(d) = {} /\ Passed(d) = {}
  BY DEF ChatInit, Charging, Passed
<1>3. Cardinality({}) = 0 /\ Cardinality(ChatCalls) \in Nat
  BY FS_EmptySet, CallSets
<1>4. LedgerInv
  BY <1>2, <1>3 DEF LedgerInv, ChatInit
<1>5. PassedInv
  BY <1>2, <1>3 DEF PassedInv, ChatInit
<1>6. QED
  BY <1>1, <1>4, <1>5 DEF CeilingIInv

LEMMA CeilingNextType ==
  ASSUME ChatTypeOK, [ChatNext]_chatVars
  PROVE  ChatTypeOK'
<1> USE DEF ChatTypeOK, ChatGoto
<1>1. 1 \in Days
  BY DEF Days
<1>2. CASE Midnight
  <2>1. today \in 1..MaxDays /\ today < MaxDays /\ today' = today + 1
    BY <1>2 DEF Midnight, Days
  <2>2. today' \in Days
    BY <2>1 DEF Days
  <2>3. QED
    BY <1>2, <2>2 DEF Midnight
<1>3. ASSUME NEW c \in ChatCalls, CheckUsage(c) PROVE ChatTypeOK'
  BY <1>3 DEF CheckUsage
<1>4. ASSUME NEW c \in ChatCalls, Complete(c) PROVE ChatTypeOK'
  BY <1>4 DEF Complete
<1>5. ASSUME NEW c \in ChatCalls, Charge(c) PROVE ChatTypeOK'
  BY <1>1, <1>5 DEF Charge
<1>6. ASSUME NEW c \in ChatCalls, ChatFails(c) PROVE ChatTypeOK'
  BY <1>1, <1>6 DEF ChatFails
<1>7. CASE UNCHANGED chatVars
  BY <1>7 DEF chatVars
<1>8. QED
  BY <1>2, <1>3, <1>4, <1>5, <1>6, <1>7 DEF ChatNext

\* A call that leaves "charge" or "complete" leaves the sets of its own day.
LEMMA LeavesItsDay ==
  ASSUME ChatTypeOK, NEW c \in ChatCalls, chatPc[c] # "idle", ChatGoto(c, "idle", 1)
  PROVE  /\ \A d \in Days : Charging(d)' = Charging(d) \ {c} /\ Passed(d)' = Passed(d) \ {c}
         /\ \A d \in Days : c \in Passed(d) <=> d = chatDate[c]
         /\ \A d \in Days : c \in Charging(d) <=> d = chatDate[c] /\ chatPc[c] = "charge"
  BY DEF ChatTypeOK, ChatGoto, Charging, Passed

LEMMA NextLedger ==
  ASSUME ChatTypeOK, LedgerInv, [ChatNext]_chatVars
  PROVE  LedgerInv'
<1>0. \A d \in Days : Charging(d) \subseteq ChatCalls /\ Cardinality(Charging(d)) \in Nat
  BY CallSets DEF Charging
<1>1. ASSUME UNCHANGED <<spent, usage, uncharged>>, \A d \in Days : Charging(d)' = Charging(d)
      PROVE  LedgerInv'
  BY <1>1 DEF LedgerInv
<1>2. CASE Midnight
  BY <1>1, <1>2 DEF Midnight, Charging
<1>3. ASSUME NEW c \in ChatCalls, CheckUsage(c) PROVE LedgerInv'
  BY <1>1, <1>3 DEF CheckUsage, ChatGoto, Charging, ChatTypeOK
<1>4. ASSUME NEW c \in ChatCalls, Complete(c) PROVE LedgerInv'
  <2>1. SUFFICES ASSUME NEW d \in Days
                 PROVE  spent'[d] = usage[d] + uncharged[d] + Cardinality(Charging(d)')
    BY <1>4 DEF LedgerInv, Complete
  <2>2. CASE d = chatDate[c]
    <3>1. Charging(d)' = Charging(d) \union {c} /\ c \notin Charging(d)
      BY <1>4, <2>2 DEF Complete, ChatGoto, Charging, ChatTypeOK
    <3>2. Cardinality(Charging(d)') = Cardinality(Charging(d)) + 1
      BY <1>0, <3>1, MoreCalls
    <3>3. spent'[d] = spent[d] + 1
      BY <1>4, <2>2 DEF Complete, ChatTypeOK
    <3>4. QED
      BY <1>0, <3>2, <3>3 DEF LedgerInv, ChatTypeOK
  <2>3. CASE d # chatDate[c]
    <3>1. Charging(d)' = Charging(d)
      BY <1>4, <2>3 DEF Complete, ChatGoto, Charging, ChatTypeOK
    <3>2. spent'[d] = spent[d]
      BY <1>4, <2>3 DEF Complete, ChatTypeOK
    <3>3. QED
      BY <3>1, <3>2 DEF LedgerInv
  <2>4. QED
    BY <2>2, <2>3
<1>5. ASSUME NEW c \in ChatCalls, Charge(c) \/ ChatFails(c) PROVE LedgerInv'
  <2>1. SUFFICES ASSUME NEW d \in Days
                 PROVE  spent[d] = usage'[d] + uncharged'[d] + Cardinality(Charging(d)')
    BY <1>5 DEF LedgerInv, Charge, ChatFails
  <2>2. chatPc[c] # "idle" /\ ChatGoto(c, "idle", 1)
    BY <1>5 DEF Charge, ChatFails
  <2>3. CASE c \in Charging(d)
    <3>1. Cardinality(Charging(d)') = Cardinality(Charging(d)) - 1
      BY <1>0, <2>2, <2>3, LeavesItsDay, FewerCalls
    <3>2. chatDate[c] = d /\ chatPc[c] = "charge"
      BY <2>3 DEF Charging
    <3>3. usage'[d] + uncharged'[d] = usage[d] + uncharged[d] + 1
      BY <1>5, <3>2 DEF Charge, ChatFails, ChatTypeOK
    <3>4. usage'[d] \in Nat /\ uncharged'[d] \in Nat
      BY <1>5, <3>2 DEF Charge, ChatFails, ChatTypeOK
    <3>5. QED
      BY <1>0, <3>1, <3>3, <3>4 DEF LedgerInv, ChatTypeOK
  <2>4. CASE c \notin Charging(d)
    <3>1. Charging(d)' = Charging(d)
      BY <2>2, <2>4, LeavesItsDay
    <3>2. ~(chatDate[c] = d /\ chatPc[c] = "charge")
      BY <2>4 DEF Charging
    <3>3. usage'[d] = usage[d] /\ uncharged'[d] = uncharged[d]
      BY <1>5, <3>2 DEF Charge, ChatFails, ChatTypeOK
    <3>4. QED
      BY <3>1, <3>3 DEF LedgerInv
  <2>5. QED
    BY <2>3, <2>4
<1>6. CASE UNCHANGED chatVars
  BY <1>1, <1>6 DEF chatVars, Charging
<1>7. QED
  BY <1>2, <1>3, <1>4, <1>5, <1>6 DEF ChatNext

LEMMA NextPassed ==
  ASSUME ChatTypeOK, PassedInv, [ChatNext]_chatVars
  PROVE  PassedInv'
<1>0. \A d \in Days : Passed(d) \subseteq ChatCalls /\ Cardinality(Passed(d)) \in Nat
  BY CallSets DEF Passed
<1>1. ASSUME UNCHANGED usage, \A d \in Days : Passed(d)' = Passed(d)
      PROVE  PassedInv'
  BY <1>1 DEF PassedInv
<1>2. CASE Midnight
  BY <1>1, <1>2 DEF Midnight, Passed
<1>3. ASSUME NEW c \in ChatCalls, CheckUsage(c) PROVE PassedInv'
  <2>1. SUFFICES ASSUME NEW d \in Days
                 PROVE  usage[d] + Cardinality(Passed(d)') <= Ceiling + Cardinality(ChatCalls) - 1
    BY <1>3 DEF PassedInv, CheckUsage
  <2>2. CASE d = today
    <3>1. usage[d] <= Ceiling - 1
      BY <1>3, <2>2 DEF CheckUsage, CeilingReached, ChatTypeOK
    <3>2. Passed(d)' \subseteq ChatCalls
      BY DEF Passed
    <3>3. Cardinality(Passed(d)') \in Nat /\ Cardinality(Passed(d)') <= Cardinality(ChatCalls)
      BY <3>2, CallSets
    <3>4. Cardinality(ChatCalls) \in Nat
      BY CallSets
    <3>5. QED
      BY <3>1, <3>3, <3>4 DEF ChatTypeOK
  <2>3. CASE d # today
    <3>1. Passed(d)' = Passed(d)
      BY <1>3, <2>3 DEF CheckUsage, ChatGoto, Passed, ChatTypeOK
    <3>2. QED
      BY <3>1 DEF PassedInv
  <2>4. QED
    BY <2>2, <2>3
<1>4. ASSUME NEW c \in ChatCalls, Complete(c) PROVE PassedInv'
  BY <1>1, <1>4 DEF Complete, ChatGoto, Passed, ChatTypeOK
<1>5. ASSUME NEW c \in ChatCalls, Charge(c) \/ ChatFails(c) PROVE PassedInv'
  <2>1. SUFFICES ASSUME NEW d \in Days
                 PROVE  usage'[d] + Cardinality(Passed(d)') <= Ceiling + Cardinality(ChatCalls) - 1
    BY DEF PassedInv
  <2>2. chatPc[c] # "idle" /\ ChatGoto(c, "idle", 1)
    BY <1>5 DEF Charge, ChatFails
  <2>3. usage'[d] \in Nat /\ usage'[d] <= usage[d] + (IF d = chatDate[c] THEN 1 ELSE 0)
    BY <1>5 DEF Charge, ChatFails, ChatTypeOK
  <2>4. Cardinality(Passed(d)') = Cardinality(Passed(d)) - (IF d = chatDate[c] THEN 1 ELSE 0)
    <3>1. CASE d = chatDate[c]
      BY <1>0, <2>2, <3>1, LeavesItsDay, FewerCalls
    <3>2. CASE d # chatDate[c]
      BY <1>0, <2>2, <3>2, LeavesItsDay
    <3>3. QED
      BY <3>1, <3>2
  <2>5. usage[d] + Cardinality(Passed(d)) <= Ceiling + Cardinality(ChatCalls) - 1 /\ Cardinality(ChatCalls) \in Nat
    BY CallSets DEF PassedInv
  <2>6. QED
    BY <1>0, <2>3, <2>4, <2>5 DEF ChatTypeOK
<1>6. CASE UNCHANGED chatVars
  BY <1>1, <1>6 DEF chatVars, Passed
<1>7. QED
  BY <1>2, <1>3, <1>4, <1>5, <1>6 DEF ChatNext

\* The inductive invariant: the ledger of what was spent, and that usage and the
\* calls that have passed the ceiling stay within it but for one call fewer than
\* there are.
THEOREM CeilingInvariant == ChatSpec => []CeilingIInv
<1>1. CeilingIInv /\ [ChatNext]_chatVars => CeilingIInv'
  BY CeilingNextType, NextLedger, NextPassed DEF CeilingIInv
<1>2. QED
  BY CeilingInitInv, <1>1, PTL DEF ChatSpec

\* A day's calls of the model that were charged, or are about to be, exceed the
\* ceiling by at most the number of calls in flight less one, for any of them.
THEOREM OverrunIsBounded == ChatSpec => []CeilingOverrun
<1>1. CeilingIInv => CeilingOverrun
  <2>1. SUFFICES ASSUME CeilingIInv, NEW d \in Days
                 PROVE  spent[d] - uncharged[d] <= Ceiling + Cardinality(ChatCalls) - 1
    BY DEF CeilingOverrun
  <2>2. Charging(d) \subseteq Passed(d) /\ Passed(d) \subseteq ChatCalls /\ Charging(d) \subseteq ChatCalls
    BY DEF Charging, Passed
  <2>3. IsFiniteSet(Passed(d))
    BY <2>2, CallSets
  <2>4. Cardinality(Charging(d)) <= Cardinality(Passed(d))
    BY <2>2, <2>3, FS_Subset
  <2>5. Cardinality(Charging(d)) \in Nat /\ Cardinality(Passed(d)) \in Nat /\ Cardinality(ChatCalls) \in Nat
    BY <2>2, CallSets
  <2>6. spent[d] = usage[d] + uncharged[d] + Cardinality(Charging(d))
    BY <2>1 DEF CeilingIInv, LedgerInv
  <2>7. usage[d] + Cardinality(Passed(d)) <= Ceiling + Cardinality(ChatCalls) - 1
    BY <2>1 DEF CeilingIInv, PassedInv
  <2>8. usage[d] \in Nat /\ uncharged[d] \in Nat /\ spent[d] \in Nat
    BY <2>1 DEF CeilingIInv, ChatTypeOK
  <2>9. QED
    BY <2>4, <2>5, <2>6, <2>7, <2>8
<1>2. QED
  BY CeilingInvariant, <1>1, PTL

HIDE CeilingAssumption DEF CeilingAssumption
-----------------------------------------------------------------------------
(* The rate limiter. *)

LimiterType ==
  /\ now \in Nat
  /\ bucket \in [count : Nat, expires : Int, window : Nat]
  /\ limiterPc \in [LimiterCalls -> {"idle", "expire", "pttl", "untimed"}]
  /\ counted \in [LimiterCalls -> [count : Nat, window : Nat]]
  /\ refused \subseteq [window : Nat, retryAt : Int, timed : BOOLEAN]

\* By the tick t the window w is over: a later one counts, the counter is not
\* there, or it expires by then.
OverBy(w, t) ==
  \/ w < bucket.window
  \/ w = bucket.window /\ (Current => bucket.expires # NoExpiry /\ bucket.expires <= t)

\* What a caller was told to wait for, unless its EXPIRE was rejected.
RefusedInv == \A r \in refused : r.timed => OverBy(r.window, r.retryAt)

\* A call that asks for the time left has seen to it that its window ends.
CountedInv == \A c \in LimiterCalls :
  /\ counted[c].window <= bucket.window
  /\ limiterPc[c] = "pttl" /\ counted[c].window = bucket.window => ~Current \/ bucket.expires # NoExpiry

\* The bucket in the process has its end from the start.
MemoryInv == limiterKind = "memory" /\ bucket.count > 0 => bucket.expires # NoExpiry

\* No counter is kept longer than a window from now, unless for ever.
EndInv == bucket.expires <= now + Window

LimiterInv == LimiterType /\ EndInv /\ RefusedInv /\ CountedInv /\ MemoryInv

-----------------------------------------------------------------------------
\* Rounded up to seconds, a wait is no shorter.
LEMMA SecondsUpIsEnough ==
  ASSUME NEW ticks \in Nat
  PROVE  SecondsUp(ticks) \in Int /\ TicksPerSecond * SecondsUp(ticks) >= ticks
<1>1. TicksPerSecond \in Nat \ {0}
  BY LimiterAssumption
<1>2. TicksPerSecond * ((ticks + TicksPerSecond - 1) \div TicksPerSecond) >= ticks
  BY <1>1, SMTT(30)
<1>3. ((ticks + TicksPerSecond - 1) \div TicksPerSecond) \in Int
  BY <1>1, SMTT(30)
<1>4. QED
  BY <1>2, <1>3 DEF SecondsUp

LEMMA LargerOfTwo ==
  ASSUME NEW a \in Int, NEW b \in Int
  PROVE  Max({a, b}) \in {a, b} /\ Max({a, b}) >= a /\ Max({a, b}) >= b
<1>1. \E x \in {a, b} : \A y \in {a, b} : x >= y
  <2>1. CASE a >= b
    BY <2>1
  <2>2. CASE b >= a
    BY <2>2
  <2>3. QED
    BY <2>1, <2>2
<1>2. Max({a, b}) \in {a, b} /\ \A y \in {a, b} : Max({a, b}) >= y
  BY <1>1 DEF Max
<1>3. QED
  BY <1>2

\* Retry-After is whole seconds, and no less than what is left of the window.
LEMMA WaitIsEnough ==
  ASSUME LimiterType, NEW left \in Int
  PROVE  RetryAt(left) \in Int /\ RetryAt(left) >= now + left
<1> DEFINE seconds == IF left > 0 THEN SecondsUp(left) ELSE WindowSeconds
           wait == Max({1, seconds})
<1>1. seconds \in Int /\ (left > 0 => TicksPerSecond * seconds >= left)
  BY SecondsUpIsEnough, LimiterAssumption
<1>2. wait \in Int /\ wait >= 1 /\ wait >= seconds
  <2> HIDE DEF seconds
  <2>1. QED
    BY <1>1, LargerOfTwo
<1>3. TicksPerSecond * wait \in Int /\ TicksPerSecond * wait >= left
  <2> HIDE DEF seconds, wait
  <2>1. TicksPerSecond \in Nat \ {0}
    BY LimiterAssumption
  <2>2. TicksPerSecond * wait >= TicksPerSecond * seconds /\ TicksPerSecond * wait >= 0
    BY <1>1, <1>2, <2>1, SMTT(30)
  <2>3. TicksPerSecond * wait \in Int
    BY <1>2, <2>1
  <2>4. CASE left > 0
    <3>1. TicksPerSecond * seconds \in Int
      BY <1>1, <2>1
    <3>2. QED
      BY <1>1, <2>2, <2>3, <2>4, <3>1
  <2>5. CASE ~(left > 0)
    BY <2>2, <2>3, <2>5
  <2>6. QED
    BY <2>3, <2>4, <2>5
<1>4. RetryAt(left) = now + TicksPerSecond * wait
  BY DEF RetryAt
<1>5. QED
  <2> HIDE DEF wait
  <2>1. QED
    BY <1>3, <1>4 DEF LimiterType

LEMMA WindowIsNatural == Window \in Nat
  BY LimiterAssumption DEF Window

LEMMA LimiterInitInv == LimiterInit => LimiterInv
  BY WindowIsNatural
     DEF LimiterInit, LimiterInv, LimiterType, EndInv, RefusedInv, CountedInv, MemoryInv, NoExpiry, NoHit

\* An expiry is only ever set to the end of a window that begins now.
LEMMA EndStep ==
  ASSUME LimiterType, EndInv, [LimiterNext]_limiterVars
  PROVE  EndInv'
<1> USE WindowIsNatural DEF LimiterType, EndInv
<1>1. /\ now' \in {now, now + 1}
      /\ \/ bucket'.expires = bucket.expires
         \/ bucket'.expires \in {NoExpiry, now + Window} /\ now' = now
  <2>1. CASE Tick
    BY <2>1 DEF Tick
  <2>2. CASE MemoryCheck
    <3>1. CASE Current
      BY <2>2, <3>1 DEF MemoryCheck
    <3>2. CASE ~Current
      BY <2>2, <3>2 DEF MemoryCheck
    <3>3. QED
      BY <3>1, <3>2
  <2>3. ASSUME NEW c \in LimiterCalls, Incr(c) 
        PROVE  /\ now' \in {now, now + 1}
               /\ \/ bucket'.expires = bucket.expires
                  \/ bucket'.expires \in {NoExpiry, now + Window} /\ now' = now
    <3>1. CASE Current
      BY <2>3, <3>1 DEF Incr
    <3>2. CASE ~Current
      BY <2>3, <3>2 DEF Incr
    <3>3. QED
      BY <3>1, <3>2
  <2>4. ASSUME NEW c \in LimiterCalls, Expire(c) 
        PROVE  /\ now' \in {now, now + 1}
               /\ \/ bucket'.expires = bucket.expires
                  \/ bucket'.expires \in {NoExpiry, now + Window} /\ now' = now
    BY <2>4 DEF Expire
  <2>5. ASSUME NEW c \in LimiterCalls,
               IncrRejected(c) \/ ExpireRejected(c) \/ Pttl(c) \/ PttlRejected(c)
                 \/ PipelineCut(c) \/ AnswerIsError(c)
        PROVE  /\ now' \in {now, now + 1}
               /\ \/ bucket'.expires = bucket.expires
                  \/ bucket'.expires \in {NoExpiry, now + Window} /\ now' = now
    BY <2>5 DEF IncrRejected, ExpireRejected, Pttl, PttlRejected, Answer, PipelineCut, AnswerIsError
  <2>6. CASE UNCHANGED limiterVars
    BY <2>6 DEF limiterVars
  <2>7. QED
    BY <2>1, <2>2, <2>3, <2>4, <2>5, <2>6 DEF LimiterNext
<1>2. QED
  BY <1>1 DEF NoExpiry

\* A bucket that goes on, or ends, makes no window last longer.
Onwards ==
  /\ bucket.window <= bucket'.window
  /\ bucket.window = bucket'.window /\ Current' =>
       Current /\ (bucket'.expires = bucket.expires \/ (bucket.expires = NoExpiry /\ bucket'.expires # NoExpiry))

LEMMA OverStaysOver ==
  ASSUME LimiterType, LimiterType', Onwards, NEW w \in Nat, NEW t \in Int, OverBy(w, t)
  PROVE  OverBy(w, t)'
<1>1. bucket.window \in Nat /\ bucket'.window \in Nat /\ bucket.expires \in Int /\ bucket'.expires \in Int
  BY DEF LimiterType
<1>2. bucket.window <= bucket'.window
  BY DEF Onwards
<1>3. CASE w < bucket.window
  <2>1. w < bucket'.window
    BY <1>1, <1>2, <1>3
  <2>2. QED
    BY <2>1 DEF OverBy
<1>4. CASE w = bucket.window /\ bucket.window # bucket'.window
  <2>1. w < bucket'.window
    BY <1>1, <1>2, <1>4
  <2>2. QED
    BY <2>1 DEF OverBy
<1>5. CASE w = bucket.window /\ bucket.window = bucket'.window
  <2>1. Current => bucket.expires # NoExpiry /\ bucket.expires <= t
    BY <1>1, <1>5 DEF OverBy
  <2>2. Current' => Current /\ bucket'.expires = bucket.expires
    BY <1>5, <2>1 DEF Onwards
  <2>3. Current' => bucket'.expires # NoExpiry /\ bucket'.expires <= t
    BY <2>1, <2>2
  <2>4. QED
    BY <1>5, <2>3 DEF OverBy, NoExpiry
<1>6. QED
  BY <1>3, <1>4, <1>5 DEF OverBy

LEMMA LimiterStep ==
  ASSUME LimiterInv, [LimiterNext]_limiterVars
  PROVE  LimiterInv'
<1> USE DEF LimiterInv, LimiterType
<1>e. EndInv'
  BY EndStep
\* What a step may leave to show.
<1>1. ASSUME LimiterType', Onwards, \A r \in refused' \ refused : r.timed => OverBy(r.window, r.retryAt)'
      PROVE  RefusedInv'
  <2>1. ASSUME NEW r \in refused, r.timed PROVE OverBy(r.window, r.retryAt)'
    BY <1>1, <2>1, OverStaysOver DEF RefusedInv
  <2>2. QED
    BY <1>1, <2>1 DEF RefusedInv
<1>2. ASSUME LimiterType', Onwards, NEW c \in LimiterCalls,
             \A d \in LimiterCalls \ {c} : limiterPc'[d] = limiterPc[d] /\ counted'[d] = counted[d],
             counted'[c].window <= bucket'.window,
             limiterPc'[c] = "pttl" /\ counted'[c].window = bucket'.window
               => ~Current' \/ bucket'.expires # NoExpiry
      PROVE  CountedInv'
  <2>1. ASSUME NEW d \in LimiterCalls \ {c}
        PROVE  /\ counted[d].window <= bucket'.window
               /\ limiterPc[d] = "pttl" /\ counted[d].window = bucket'.window
                    => ~Current' \/ bucket'.expires # NoExpiry
    BY <1>2, SMTT(30) DEF CountedInv, Onwards
  <2>2. QED
    BY <1>2, <2>1 DEF CountedInv
<1>3. CASE Tick
  <2>1. now' = now + 1 /\ UNCHANGED <<limiterKind, bucket, limiterPc, counted, refused>>
    BY <1>3 DEF Tick
  <2>2. LimiterType' /\ Onwards
    BY <2>1 DEF Onwards, Current
  <2>3. CountedInv'
    BY <2>1, <2>2 DEF CountedInv, Onwards
  <2>4. QED
    BY <1>e, <1>1, <2>1, <2>2, <2>3 DEF MemoryInv
<1>4. CASE MemoryCheck
  <2> DEFINE next == IF Current THEN [bucket EXCEPT !.count = @ + 1]
                     ELSE [count |-> 1, expires |-> now + Window, window |-> bucket.window + 1]
             retryAt == RetryAt(next.expires - now)
  <2>1. /\ bucket' = next /\ Refuse(next.count, next.window, retryAt, TRUE)
        /\ limiterKind = "memory" /\ UNCHANGED <<limiterKind, now, limiterPc, counted>>
    BY <1>4 DEF MemoryCheck
  <2>2. next \in [count : Nat, expires : Int, window : Nat]
    BY WindowIsNatural
  <2>3. Onwards
    BY <2>1, WindowIsNatural DEF Onwards, Current
  <2>4. next.expires # NoExpiry
    BY <2>1, WindowIsNatural DEF NoExpiry, MemoryInv, Current
  <2>5. retryAt \in Int /\ retryAt >= next.expires
    <3> HIDE DEF next
    <3>1. next.expires - now \in Int
      BY <2>2
    <3>2. QED
      BY <2>2, <3>1, WaitIsEnough
  <2>6. refused' = refused
       \/ refused' = refused \union {[window |-> next.window, retryAt |-> retryAt, timed |-> TRUE]}
    BY <2>1 DEF Refuse
  <2> HIDE DEF next, retryAt
  <2>7. LimiterType'
    <3>1. next.window \in Nat
      BY <2>2
    <3>2. [window |-> next.window, retryAt |-> retryAt, timed |-> TRUE] \in
            [window : Nat, retryAt : Int, timed : BOOLEAN]
      BY <2>5, <3>1
    <3>3. refused' \subseteq [window : Nat, retryAt : Int, timed : BOOLEAN]
      <4>1. refused \subseteq [window : Nat, retryAt : Int, timed : BOOLEAN]
        OBVIOUS
      <4>2. CASE refused' = refused
        BY <4>1, <4>2
      <4>3. CASE refused' = refused \union {[window |-> next.window, retryAt |-> retryAt, timed |-> TRUE]}
        BY <3>2, <4>1, <4>3
      <4>4. QED
        BY <2>6, <4>2, <4>3
    <3>4. QED
      BY <2>1, <2>2, <3>3
  <2>8. RefusedInv'
    <3>1. ASSUME NEW r \in refused' \ refused PROVE OverBy(r.window, r.retryAt)'
      <4>1. r.window = bucket'.window /\ r.retryAt >= bucket'.expires
        BY <2>1, <2>5, <2>6, <3>1
      <4>2. bucket'.expires # NoExpiry /\ bucket'.expires <= r.retryAt
        BY <2>1, <2>2, <2>4, <2>7, <4>1
      <4>3. QED
        BY <4>1, <4>2 DEF OverBy, NoExpiry
    <3>2. QED
      BY <1>1, <2>3, <2>7, <3>1
  <2>9. CountedInv'
    BY <2>1, <2>3, <2>7 DEF CountedInv, Onwards
  <2>10. QED
    BY <1>e, <2>1, <2>4, <2>7, <2>8, <2>9 DEF MemoryInv
<1>5. ASSUME NEW c \in LimiterCalls, Incr(c) PROVE LimiterInv'
  <2> DEFINE next == IF Current THEN [bucket EXCEPT !.count = @ + 1]
                     ELSE [count |-> 1, expires |-> NoExpiry, window |-> bucket.window + 1]
  <2>1. /\ bucket' = next /\ counted' = [counted EXCEPT ![c] = [count |-> next.count, window |-> next.window]]
        /\ limiterPc' = [limiterPc EXCEPT ![c] = "expire"]
        /\ limiterKind = "shared" /\ UNCHANGED <<limiterKind, now, refused>>
    BY <1>5 DEF Incr
  <2>2. next \in [count : Nat, expires : Int, window : Nat]
    BY DEF NoExpiry
  <2>3. Onwards
    BY <2>1 DEF Onwards, Current
  <2> HIDE DEF next
  <2>4. LimiterType'
    BY <2>1, <2>2
  <2>5. CountedInv'
    BY <1>2, <2>1, <2>2, <2>3, <2>4
  <2>6. QED
    BY <1>e, <1>1, <2>1, <2>3, <2>4, <2>5 DEF MemoryInv
<1>6. ASSUME NEW c \in LimiterCalls, Expire(c) PROVE LimiterInv'
  <2>1. /\ limiterPc[c] = "expire" /\ limiterPc' = [limiterPc EXCEPT ![c] = "pttl"]
        /\ bucket' = IF Current /\ bucket.expires = NoExpiry THEN [bucket EXCEPT !.expires = now + Window] ELSE bucket
        /\ UNCHANGED <<limiterKind, now, counted, refused>>
    BY <1>6 DEF Expire
  <2>2. LimiterType' /\ bucket'.window = bucket.window
    BY <2>1, WindowIsNatural
  <2>3. Onwards
    BY <2>1, WindowIsNatural DEF Onwards, Current, NoExpiry
  <2>4. ~Current' \/ bucket'.expires # NoExpiry
    BY <2>1, WindowIsNatural DEF Current, NoExpiry
  <2>5. MemoryInv'
    BY <2>1, WindowIsNatural DEF MemoryInv, NoExpiry
  <2>6. CountedInv'
    <3>1. counted'[c].window <= bucket'.window
      BY <2>1, <2>2 DEF CountedInv
    <3>2. QED
      BY <1>2, <2>1, <2>2, <2>3, <2>4, <3>1
  <2>7. QED
    BY <1>e, <1>1, <2>1, <2>2, <2>3, <2>5, <2>6
\* The answer is for all that the window has left, if the call's EXPIRE was carried out.
<1>7. ASSUME NEW c \in LimiterCalls, NEW left \in Int, Answer(c, left),
             Current /\ bucket.expires # NoExpiry => bucket.expires <= now + left
      PROVE  LimiterInv'
  <2> DEFINE w == counted[c].window
             timed == limiterPc[c] = "pttl"
  <2>1. /\ Refuse(counted[c].count, w, RetryAt(left), timed) /\ EndCheck(c)
        /\ UNCHANGED <<limiterKind, now, bucket>>
    BY <1>7 DEF Answer
  <2>2. w \in Nat /\ timed \in BOOLEAN
    OBVIOUS
  <2>3. RetryAt(left) \in Int /\ RetryAt(left) >= now + left
    BY WaitIsEnough
  <2>4. Onwards
    BY <2>1 DEF Onwards, Current
  <2>5. ASSUME timed PROVE OverBy(w, RetryAt(left))
    <3>1. w < bucket.window \/ (w = bucket.window /\ (Current => bucket.expires # NoExpiry))
      <4>1. limiterPc[c] = "pttl" /\ w <= bucket.window
        BY <2>5 DEF CountedInv
      <4>2. w = bucket.window => ~Current \/ bucket.expires # NoExpiry
        BY <4>1 DEF CountedInv
      <4>3. bucket.window \in Nat
        OBVIOUS
      <4> HIDE DEF w, timed
      <4>4. QED
        BY <2>2, <4>1, <4>2, <4>3
    <3>2. now + left \in Int
      OBVIOUS
    <3> HIDE DEF w, timed
    <3>3. QED
      BY <1>7, <2>3, <3>1, <3>2 DEF OverBy
  <2>6. \/ refused' = refused
        \/ refused' = refused \union {[window |-> w, retryAt |-> RetryAt(left), timed |-> timed]}
    BY <2>1 DEF Refuse
  <2>7. /\ limiterPc' = [limiterPc EXCEPT ![c] = "idle"] /\ counted' = [counted EXCEPT ![c] = NoHit]
    BY <2>1 DEF EndCheck
  <2> HIDE DEF w, timed
  <2>8. LimiterType'
    BY <2>1, <2>2, <2>3, <2>6, <2>7 DEF NoHit
  <2>9. ASSUME NEW r \in refused' \ refused, r.timed PROVE OverBy(r.window, r.retryAt)'
    <3>1. r.window = w /\ r.retryAt = RetryAt(left) /\ timed
      BY <2>6, <2>9
    <3>2. OverBy(r.window, r.retryAt)
      BY <2>5, <3>1
    <3>3. QED
      BY <2>1, <3>2 DEF OverBy, Current
  <2>10. CountedInv'
    <3>1. counted'[c].window <= bucket'.window /\ limiterPc'[c] # "pttl"
      BY <2>7, <2>8 DEF NoHit
    <3>2. QED
      BY <1>2, <2>4, <2>7, <2>8, <3>1
  <2>11. QED
    BY <1>1, <1>e, <2>1, <2>4, <2>8, <2>9, <2>10 DEF MemoryInv
<1>8. ASSUME NEW c \in LimiterCalls, Pttl(c) PROVE LimiterInv'
  <2> DEFINE left == IF Current /\ bucket.expires # NoExpiry THEN bucket.expires - now ELSE 0
  <2>1. left \in Int /\ (Current /\ bucket.expires # NoExpiry => bucket.expires <= now + left)
    OBVIOUS
  <2>2. Answer(c, left)
    BY <1>8 DEF Pttl
  <2> HIDE DEF left
  <2>3. QED
    BY <1>7, <2>1, <2>2
<1>9. ASSUME NEW c \in LimiterCalls, PttlRejected(c) PROVE LimiterInv'
  <2>1. Window \in Int /\ (Current /\ bucket.expires # NoExpiry => bucket.expires <= now + Window)
    BY WindowIsNatural DEF EndInv
  <2>2. QED
    BY <1>7, <1>9, <2>1 DEF PttlRejected
\* The other ways on leave the counter alone, and refuse nobody.
<1>10. ASSUME NEW c \in LimiterCalls, IncrRejected(c) \/ ExpireRejected(c) PROVE LimiterInv'
  <2>1. PICK pc \in {"expire", "untimed"} : limiterPc' = [limiterPc EXCEPT ![c] = pc]
    BY <1>10 DEF IncrRejected, ExpireRejected
  <2>2. UNCHANGED <<limiterKind, now, bucket, counted, refused>>
    BY <1>10 DEF IncrRejected, ExpireRejected
  <2>3. LimiterType'
    BY <2>1, <2>2
  <2>4. Onwards
    BY <2>2 DEF Onwards, Current
  <2>5. CountedInv'
    <3>1. counted'[c].window <= bucket'.window /\ limiterPc'[c] # "pttl"
      BY <2>1, <2>2 DEF CountedInv
    <3>2. QED
      BY <1>2, <2>1, <2>2, <2>3, <2>4, <3>1
  <2>6. QED
    BY <1>1, <1>e, <2>2, <2>3, <2>4, <2>5 DEF MemoryInv
<1>11. ASSUME NEW c \in LimiterCalls, PipelineCut(c) \/ AnswerIsError(c) PROVE LimiterInv'
  <2>1. /\ limiterPc' = [limiterPc EXCEPT ![c] = "idle"] /\ counted' = [counted EXCEPT ![c] = NoHit]
        /\ UNCHANGED <<limiterKind, now, bucket, refused>>
    BY <1>11 DEF PipelineCut, AnswerIsError, EndCheck
  <2>2. LimiterType' /\ Onwards
    BY <2>1 DEF NoHit, Onwards, Current
  <2>3. CountedInv'
    BY <1>2, <2>1, <2>2 DEF NoHit
  <2>4. QED
    BY <1>1, <1>e, <2>1, <2>2, <2>3 DEF MemoryInv
<1>12. CASE UNCHANGED limiterVars
  BY <1>e, <1>12 DEF limiterVars, RefusedInv, CountedInv, MemoryInv, OverBy, Current
<1>13. QED
  BY <1>3, <1>4, <1>5, <1>6, <1>8, <1>9, <1>10, <1>11, <1>12 DEF LimiterNext

\* The inductive invariant of the limiter: whoever has been told when to come back
\* finds the window over by then, whichever commands of others come between.
THEOREM LimiterInvariant == LimiterSpec => []LimiterInv
  BY LimiterInitInv, LimiterStep, PTL DEF LimiterSpec

\* A caller that waits as long as Retry-After says finds the window over, for any
\* limit, window and clock, any number of callers, and both implementations.
THEOREM WaitingIsEnough == LimiterSpec => []RetryAfterIsEnough
<1>1. LimiterInv => RetryAfterIsEnough
  BY DEF LimiterInv, LimiterType, RefusedInv, OverBy, RetryAfterIsEnough, Current
<1>2. QED
  BY LimiterInvariant, <1>1, PTL

-----------------------------------------------------------------------------
(* Totals over a finite set. *)

Total(f, S) == MapThenSumSet(LAMBDA i : f[i], S)

\* The element that is taken next.
Any(s) == CHOOSE x \in s : TRUE

\* g adds up f over each subset of S.
Adds(g, f, S) ==
  g = [s \in SUBSET S |-> IF s = {} THEN 0 ELSE f[Any(s)] + g[s \ {Any(s)}]]

\* A total is the last value of the function that the fold defines by recursion.
LEMMA TotalIsChosen ==
  ASSUME NEW f, NEW S
  PROVE  Total(f, S) = (CHOOSE g : Adds(g, f, S))[S]
BY DEF Total, MapThenSumSet, MapThenFoldSet, Adds, Any

\* What holds of the empty set, and of a set with an element more, holds of a finite set.
LEMMA OneByOne ==
  ASSUME NEW S, IsFiniteSet(S), NEW Good \in SUBSET SUBSET S, {} \in Good,
         \A T \in Good : \A x \in S \ T : T \union {x} \in Good
  PROVE  S \in Good
<1> DEFINE Left == {n \in Nat : \E T \in Good : Cardinality(S \ T) = n}
           R == OpToRel(<, Nat)
<1>1. Left # {}
  <2>1. Cardinality(S \ {}) \in Nat
    BY FS_CardinalityType
  <2>2. QED
    BY <2>1
<1>2. \E n \in Left : \A m \in Left : ~(<<m, n>> \in R)
  <2>1. IsWellFoundedOn(R, Nat)
    BY NatLessThanWellFounded
  <2>2. Left \subseteq Nat
    OBVIOUS
  <2> HIDE DEF Left, R
  <2>3. QED
    BY <1>1, <2>1, <2>2, WFMin
<1>3. PICK n \in Left : \A m \in Left : ~(<<m, n>> \in R)
  BY <1>2
<1>4. PICK T \in Good : Cardinality(S \ T) = n
  OBVIOUS
<1>5. ASSUME NEW x \in S \ T PROVE FALSE
  <2>1. IsFiniteSet(S \ T)
    BY FS_Difference
  <2>2. S \ (T \union {x}) = (S \ T) \ {x}
    OBVIOUS
  <2>3. Cardinality(S \ (T \union {x})) = n - 1 /\ n - 1 \in Nat
    <3>1. Cardinality((S \ T) \ {x}) = n - 1
      BY <1>4, <1>5, <2>1, FS_RemoveElement
    <3>2. Cardinality((S \ T) \ {x}) \in Nat
      BY <2>1, FS_RemoveElement, FS_CardinalityType
    <3>3. QED
      BY <2>2, <3>1, <3>2
  <2>4. n - 1 \in Left
    BY <1>5, <2>3
  <2>5. <<n - 1, n>> \in R
    BY <2>3 DEF OpToRel
  <2>6. QED
    BY <1>3, <2>4, <2>5
<1>6. QED
  BY <1>4, <1>5

\* What holds of 0, and of the next number, holds of all.
LEMMA UpTo ==
  ASSUME NEW Good \in SUBSET Nat, 0 \in Good, \A n \in Good : n + 1 \in Good
  PROVE  Nat \subseteq Good
<1> DEFINE Left == Nat \ Good
           R == OpToRel(<, Nat)
<1>1. SUFFICES ASSUME Left # {} PROVE FALSE
  OBVIOUS
<1>2. \E n \in Left : \A m \in Left : ~(<<m, n>> \in R)
  <2>1. IsWellFoundedOn(R, Nat)
    BY NatLessThanWellFounded
  <2>2. Left \subseteq Nat
    OBVIOUS
  <2> HIDE DEF Left, R
  <2>3. QED
    BY <1>1, <2>1, <2>2, WFMin
<1>3. PICK n \in Left : \A m \in Left : ~(<<m, n>> \in R)
  BY <1>2
<1>4. n - 1 \in Nat /\ <<n - 1, n>> \in R
  BY DEF OpToRel
<1>5. n - 1 \in Good
  BY <1>3, <1>4
<1>6. (n - 1) + 1 = n
  OBVIOUS
<1>7. QED
  BY <1>5, <1>6

\* The subsets with n elements at most, and what the recursion gives for one of them.
Fewer(S, n) == {s \in SUBSET S : Cardinality(s) <= n}
Step(g, f, s) == IF s = {} THEN 0 ELSE f[Any(s)] + g[s \ {Any(s)}]

\* Taking an element leaves a smaller set.
LEMMA AnyOfFewer ==
  ASSUME NEW S, IsFiniteSet(S), NEW n \in Nat, NEW s \in Fewer(S, n + 1), s # {}
  PROVE  Any(s) \in s /\ s \ {Any(s)} \in Fewer(S, n)
<1>1. Any(s) \in s
  BY DEF Any
<1>2. s \in SUBSET S /\ Cardinality(s) <= n + 1
  BY DEF Fewer
<1>3. IsFiniteSet(s)
  BY <1>2, FS_Subset
<1>4. Cardinality(s \ {Any(s)}) = Cardinality(s) - 1 /\ Cardinality(s) \in Nat
  BY <1>1, <1>3, FS_RemoveElement, FS_CardinalityType
<1>5. QED
  BY <1>1, <1>2, <1>4 DEF Fewer

\* The recursion has a solution, for sets of one element more at a time.
LEMMA SumsExist ==
  ASSUME NEW S, IsFiniteSet(S), NEW f
  PROVE  \E g : Adds(g, f, S)
<1> DEFINE Good == {n \in Nat : \E g : g = [s \in Fewer(S, n) |-> Step(g, f, s)]}
<1>1. 0 \in Good
  <2>1. \A s \in Fewer(S, 0) : s = {}
    <3>1. SUFFICES ASSUME NEW s \in Fewer(S, 0) PROVE s = {}
      OBVIOUS
    <3>2. IsFiniteSet(s) /\ Cardinality(s) <= 0
      BY FS_Subset DEF Fewer
    <3>3. QED
      BY <3>2, FS_CardinalityType, FS_EmptySet
  <2>2. [s \in Fewer(S, 0) |-> 0] = [s \in Fewer(S, 0) |-> Step([t \in Fewer(S, 0) |-> 0], f, s)]
    BY <2>1 DEF Step
  <2>3. QED
    BY <2>2
<1>2. ASSUME NEW n \in Good PROVE n + 1 \in Good
  <2>1. PICK g : g = [s \in Fewer(S, n) |-> Step(g, f, s)]
    BY <1>2
  <2> DEFINE h == [s \in Fewer(S, n + 1) |-> Step(g, f, s)]
  <2>2. ASSUME NEW s \in Fewer(S, n) PROVE s \in Fewer(S, n + 1) /\ h[s] = g[s]
    <3>1. IsFiniteSet(s) /\ Cardinality(s) <= n
      BY FS_Subset DEF Fewer
    <3>2. s \in Fewer(S, n + 1)
      BY <3>1, FS_CardinalityType DEF Fewer
    <3>3. g[s] = Step(g, f, s)
      <4> HIDE DEF h
      <4>1. QED
        BY <2>1
    <3>4. QED
      BY <3>2, <3>3
  <2>3. ASSUME NEW s \in Fewer(S, n + 1) PROVE Step(g, f, s) = Step(h, f, s)
    <3>1. s # {} => s \ {Any(s)} \in Fewer(S, n)
      BY AnyOfFewer
    <3> HIDE DEF h
    <3>2. QED
      BY <2>2, <3>1 DEF Step
  <2>4. h = [s \in Fewer(S, n + 1) |-> Step(h, f, s)]
    BY <2>3
  <2> HIDE DEF h
  <2>5. QED
    BY <2>4
<1>3. Cardinality(S) \in Good
  <2>1. Cardinality(S) \in Nat
    BY FS_CardinalityType
  <2> HIDE DEF Good
  <2>2. Good \in SUBSET Nat
    BY DEF Good
  <2>3. QED
    BY <1>1, <1>2, <2>1, <2>2, UpTo
<1>4. Fewer(S, Cardinality(S)) = SUBSET S
  BY FS_Subset DEF Fewer
<1>5. PICK g : g = [s \in SUBSET S |-> Step(g, f, s)]
  BY <1>3, <1>4
<1>6. QED
  BY <1>5 DEF Adds, Step

\* Two solutions agree where both are defined.
LEMMA SumsAgree ==
  ASSUME NEW S, IsFiniteSet(S), NEW T \in SUBSET S, NEW f, NEW g, NEW h, Adds(g, f, S), Adds(h, f, T)
  PROVE  g[T] = h[T]
<1> DEFINE Good == {n \in Nat : \A s \in Fewer(T, n) : g[s] = h[s]}
<1>1. \A s \in SUBSET T : g[s] = Step(g, f, s) /\ h[s] = Step(h, f, s)
  BY DEF Adds, Step
<1>2. IsFiniteSet(T)
  BY FS_Subset
<1>3. 0 \in Good
  <2>1. ASSUME NEW s \in Fewer(T, 0) PROVE s = {}
    <3>1. IsFiniteSet(s) /\ Cardinality(s) <= 0
      BY <1>2, FS_Subset DEF Fewer
    <3>2. QED
      BY <3>1, FS_CardinalityType, FS_EmptySet
  <2>2. QED
    BY <1>1, <2>1 DEF Step
<1>4. ASSUME NEW n \in Good PROVE n + 1 \in Good
  <2>1. ASSUME NEW s \in Fewer(T, n + 1) PROVE g[s] = h[s]
    <3>1. s \in SUBSET T
      BY DEF Fewer
    <3>2. s # {} => s \ {Any(s)} \in Fewer(T, n)
      BY <1>2, AnyOfFewer
    <3>3. Step(g, f, s) = Step(h, f, s)
      BY <1>4, <3>2 DEF Step
    <3>4. QED
      BY <1>1, <3>1, <3>3
  <2>2. QED
    BY <2>1
<1>5. Cardinality(T) \in Good
  <2>1. Cardinality(T) \in Nat
    BY <1>2, FS_CardinalityType
  <2>2. Good \in SUBSET Nat
    OBVIOUS
  <2> HIDE DEF Good
  <2>3. QED
    BY <1>3, <1>4, <2>1, <2>2, UpTo
<1>6. T \in Fewer(T, Cardinality(T))
  BY <1>2, FS_CardinalityType DEF Fewer
<1>7. QED
  BY <1>5, <1>6

\* The total over nothing.
LEMMA TotalOfNone == ASSUME NEW f PROVE Total(f, {}) = 0
<1>1. \E g : Adds(g, f, {})
  BY SumsExist, FS_EmptySet
<1>2. Adds(CHOOSE g : Adds(g, f, {}), f, {})
  BY <1>1
<1>3. QED
  BY <1>2, TotalIsChosen DEF Adds

\* One element is taken and the rest is added up.
LEMMA TotalStep ==
  ASSUME NEW S, IsFiniteSet(S), S # {}, NEW f
  PROVE  Any(S) \in S /\ Total(f, S) = f[Any(S)] + Total(f, S \ {Any(S)})
<1> DEFINE T == S \ {Any(S)}
           g == CHOOSE g : Adds(g, f, S)
           h == CHOOSE h : Adds(h, f, T)
<1>1. IsFiniteSet(T) /\ T \in SUBSET S
  BY FS_Subset
<1>2. Adds(g, f, S)
  BY SumsExist
<1>3. Adds(h, f, T)
  BY SumsExist, <1>1
<1>4. Total(f, S) = g[S] /\ Total(f, T) = h[T]
  BY TotalIsChosen
<1>5. g[T] = h[T]
  <2> HIDE DEF T, g, h
  <2>1. QED
    BY <1>1, <1>2, <1>3, SumsAgree
<1>6. g[S] = f[Any(S)] + g[T]
  <2> HIDE DEF g
  <2>1. QED
    BY <1>2 DEF Adds
<1>7. QED
  BY <1>4, <1>5, <1>6 DEF Any

\* A total of natural numbers is one.
LEMMA TotalType ==
  ASSUME NEW S, IsFiniteSet(S), NEW f, \A i \in S : f[i] \in Nat
  PROVE  Total(f, S) \in Nat
<1> DEFINE Good == {n \in Nat : \A T \in Fewer(S, n) : Total(f, T) \in Nat}
<1>1. 0 \in Good
  <2>1. ASSUME NEW s \in Fewer(S, 0) PROVE s = {}
    <3>1. IsFiniteSet(s)
      BY FS_Subset DEF Fewer
    <3>2. Cardinality(s) \in Nat
      BY <3>1, FS_CardinalityType
    <3>3. Cardinality(s) <= 0
      BY DEF Fewer
    <3>4. Cardinality(s) = 0
      BY <3>2, <3>3
    <3>5. QED
      BY <3>1, <3>4, FS_EmptySet
  <2>2. Total(f, {}) \in Nat
    BY TotalOfNone
  <2>3. ASSUME NEW T \in Fewer(S, 0) PROVE Total(f, T) \in Nat
    <3>1. T = {}
      BY <2>1
    <3>2. QED
      BY <2>2, <3>1
  <2>4. QED
    BY <2>3
<1>2. ASSUME NEW n \in Good PROVE n + 1 \in Good
  <2>1. ASSUME NEW T \in Fewer(S, n + 1) PROVE Total(f, T) \in Nat
    <3>1. CASE T = {}
      BY <3>1, TotalOfNone
    <3>2. CASE T # {}
      <4>1. T \in SUBSET S /\ IsFiniteSet(T)
        BY FS_Subset DEF Fewer
      <4>2. Any(T) \in T /\ Total(f, T) = f[Any(T)] + Total(f, T \ {Any(T)})
        BY <3>2, <4>1, TotalStep
      <4>3. T \ {Any(T)} \in Fewer(S, n)
        BY <3>2, AnyOfFewer
      <4>4. Total(f, T \ {Any(T)}) \in Nat
        BY <1>2, <4>3
      <4>5. QED
        BY <4>1, <4>2, <4>4
    <3>3. QED
      BY <3>1, <3>2
  <2>2. QED
    BY <2>1
<1>3. Cardinality(S) \in Nat
  BY FS_CardinalityType
<1>4. Cardinality(S) \in Good
  <2>1. Good \in SUBSET Nat
    OBVIOUS
  <2> HIDE DEF Good
  <2>2. QED
    BY <1>1, <1>2, <1>3, <2>1, UpTo
<1>5. S \in Fewer(S, Cardinality(S))
  BY <1>3 DEF Fewer
<1>6. QED
  BY <1>4, <1>5

\* It does not matter which element is taken first.
LEMMA TotalRemove ==
  ASSUME NEW S, IsFiniteSet(S), NEW f, \A i \in S : f[i] \in Nat, NEW x \in S
  PROVE  Total(f, S) = f[x] + Total(f, S \ {x})
<1> DEFINE Apart(T) == \A z \in T : Total(f, T) = f[z] + Total(f, T \ {z})
           Good == {n \in Nat : \A T \in Fewer(S, n) : Apart(T)}
<1>1. 0 \in Good
  <2>1. ASSUME NEW s \in Fewer(S, 0) PROVE s = {}
    <3>1. IsFiniteSet(s)
      BY FS_Subset DEF Fewer
    <3>2. Cardinality(s) \in Nat
      BY <3>1, FS_CardinalityType
    <3>3. Cardinality(s) <= 0
      BY DEF Fewer
    <3>4. Cardinality(s) = 0
      BY <3>2, <3>3
    <3>5. QED
      BY <3>1, <3>4, FS_EmptySet
  <2>2. QED
    BY <2>1
<1>2. ASSUME NEW n \in Good PROVE n + 1 \in Good
  <2>1. ASSUME NEW T \in Fewer(S, n + 1), NEW z \in T
        PROVE Total(f, T) = f[z] + Total(f, T \ {z})
    <3> DEFINE y == Any(T)
               rest == (T \ {z}) \ {y}
    <3>1. T \in SUBSET S /\ IsFiniteSet(T) /\ T # {}
      BY <2>1, FS_Subset DEF Fewer
    <3>2. y \in T /\ Total(f, T) = f[y] + Total(f, T \ {y})
      BY <3>1, TotalStep
    <3>3. CASE z = y
      BY <3>2, <3>3
    <3>4. CASE z # y
      <4>1. T \ {y} \in Fewer(S, n)
        BY <3>1, AnyOfFewer
      <4>2. Total(f, T \ {y}) = f[z] + Total(f, (T \ {y}) \ {z})
        <5>1. Apart(T \ {y})
          BY <1>2, <4>1
        <5>2. z \in T \ {y}
          BY <2>1, <3>4
        <5> HIDE DEF y
        <5>3. QED
          BY <5>1, <5>2
      <4>3. T \ {z} \in Fewer(S, n)
        <5>1. Cardinality(T \ {z}) = Cardinality(T) - 1 /\ Cardinality(T) \in Nat
          BY <2>1, <3>1, FS_RemoveElement, FS_CardinalityType
        <5>2. Cardinality(T) <= n + 1 /\ T \ {z} \in SUBSET S
          BY <3>1 DEF Fewer
        <5>3. QED
          BY <5>1, <5>2 DEF Fewer
      <4>4. \A i \in S : f[i] \in Nat
        OBVIOUS
      <4>5. Total(f, rest) \in Nat
        <5>1. IsFiniteSet(rest) /\ rest \in SUBSET S
          BY <3>1, FS_Subset
        <5> HIDE DEF rest
        <5>2. QED
          BY <5>1, <4>4, TotalType
      <4>6. Total(f, T \ {z}) = f[y] + Total(f, rest)
        <5>1. y \in T \ {z}
          BY <3>2, <3>4
        <5>2. Apart(T \ {z})
          BY <1>2, <4>3
        <5> HIDE DEF y
        <5>3. QED
          BY <5>1, <5>2
      <4>7. (T \ {y}) \ {z} = rest
        OBVIOUS
      <4>8. f[y] \in Nat /\ f[z] \in Nat
        BY <3>1, <3>2, <4>4
      <4> HIDE DEF y, rest
      <4>9. Total(f, T \ {y}) = f[z] + Total(f, rest)
        BY <4>2, <4>7
      <4>10. Total(f, T) = f[y] + (f[z] + Total(f, rest))
        BY <3>2, <4>9
      <4>11. f[y] + (f[z] + Total(f, rest)) = f[z] + (f[y] + Total(f, rest))
        BY <4>5, <4>8
      <4>12. QED
        BY <4>6, <4>10, <4>11
    <3>5. QED
      BY <3>3, <3>4
  <2>2. QED
    BY <2>1
<1>3. Cardinality(S) \in Nat
  BY FS_CardinalityType
<1>4. Cardinality(S) \in Good
  <2>1. Good \in SUBSET Nat
    OBVIOUS
  <2> HIDE DEF Good
  <2>2. QED
    BY <1>1, <1>2, <1>3, <2>1, UpTo
<1>5. S \in Fewer(S, Cardinality(S))
  BY <1>3 DEF Fewer
<1>6. QED
  BY <1>4, <1>5

\* The total over two disjoint sets.
LEMMA TotalSplit ==
  ASSUME NEW A, IsFiniteSet(A), NEW B, IsFiniteSet(B), A \cap B = {},
         NEW f, \A i \in A \union B : f[i] \in Nat
  PROVE  Total(f, A \union B) = Total(f, A) + Total(f, B)
<1> DEFINE Good == {T \in SUBSET B : Total(f, A \union T) = Total(f, A) + Total(f, T)}
<1>1. Total(f, A) \in Nat
  BY TotalType
<1>2. {} \in Good
  <2>1. A \union {} = A
    OBVIOUS
  <2>2. Total(f, {}) = 0
    BY TotalOfNone
  <2>3. Total(f, A \union {}) = Total(f, A) + Total(f, {})
    BY <1>1, <2>1, <2>2
  <2>4. QED
    BY <2>3
<1>3. ASSUME NEW T \in Good, NEW x \in B \ T PROVE T \union {x} \in Good
  <2> DEFINE U == T \union {x}
  <2>1. T \in SUBSET B /\ Total(f, A \union T) = Total(f, A) + Total(f, T)
    BY <1>3
  <2>2. U \in SUBSET B /\ x \in U /\ x \in A \union U
    BY <2>1
  <2>3. IsFiniteSet(U) /\ IsFiniteSet(A \union U) /\ IsFiniteSet(T)
    BY <2>1, <2>2, FS_Subset, FS_Union
  <2>4. (A \union U) \ {x} = A \union T /\ U \ {x} = T
    BY <2>1
  <2>5. \A i \in U : f[i] \in Nat
    BY <2>2
  <2>6. \A i \in A \union U : f[i] \in Nat
    BY <2>2
  <2>7. \A i \in T : f[i] \in Nat
    BY <2>1
  <2> HIDE DEF U
  <2>8. Total(f, U) = f[x] + Total(f, T)
    BY <2>2, <2>3, <2>4, <2>5, TotalRemove
  <2>9. Total(f, A \union U) = f[x] + Total(f, A \union T)
    BY <2>2, <2>3, <2>4, <2>6, TotalRemove
  <2>10. Total(f, T) \in Nat /\ f[x] \in Nat
    BY <2>3, <2>7, TotalType
  <2>11. f[x] + (Total(f, A) + Total(f, T)) = Total(f, A) + (f[x] + Total(f, T))
    BY <1>1, <2>10
  <2>12. Total(f, A \union U) = Total(f, A) + Total(f, U)
    BY <2>1, <2>8, <2>9, <2>11
  <2>13. QED
    BY <2>2, <2>12 DEF U
<1>4. B \in Good
  <2>1. Good \in SUBSET SUBSET B
    OBVIOUS
  <2> HIDE DEF Good
  <2>2. QED
    BY <1>2, <1>3, <2>1, OneByOne
<1>5. QED
  BY <1>4

\* The total over a part is no larger.
LEMMA TotalLess ==
  ASSUME NEW S, IsFiniteSet(S), NEW T \in SUBSET S, NEW f, \A i \in S : f[i] \in Nat
  PROVE  Total(f, T) \in Nat /\ Total(f, S) \in Nat /\ Total(f, T) <= Total(f, S)
<1>1. IsFiniteSet(T) /\ IsFiniteSet(S \ T) /\ T \cap (S \ T) = {} /\ T \union (S \ T) = S
  BY FS_Subset, FS_Difference
<1>2. Total(f, T \union (S \ T)) = Total(f, T) + Total(f, S \ T)
  BY <1>1, TotalSplit
<1>3. Total(f, S) = Total(f, T) + Total(f, S \ T)
  BY <1>1, <1>2
<1>4. \A i \in T : f[i] \in Nat
  OBVIOUS
<1>5. \A i \in S \ T : f[i] \in Nat
  OBVIOUS
<1>6. Total(f, T) \in Nat
  BY <1>1, <1>4, TotalType
<1>7. Total(f, S \ T) \in Nat
  BY <1>1, <1>5, TotalType
<1>8. QED
  BY <1>3, <1>6, <1>7

\* A total depends only on the values that are added up.
LEMMA TotalSame ==
  ASSUME NEW S, IsFiniteSet(S), NEW f, NEW g, \A i \in S : f[i] \in Nat /\ g[i] = f[i]
  PROVE  Total(g, S) = Total(f, S)
<1> DEFINE Good == {T \in SUBSET S : Total(g, T) = Total(f, T)}
<1>1. {} \in Good
  BY TotalOfNone
<1>2. ASSUME NEW T \in Good, NEW x \in S \ T PROVE T \union {x} \in Good
  <2> DEFINE U == T \union {x}
  <2>1. U \in SUBSET S /\ x \in U /\ U \ {x} = T /\ g[x] = f[x]
    BY <1>2
  <2>2. IsFiniteSet(U)
    BY <2>1, FS_Subset
  <2>3. \A i \in U : f[i] \in Nat
    BY <2>1
  <2>4. \A i \in U : g[i] \in Nat
    BY <2>1
  <2> HIDE DEF U
  <2>5. Total(f, U) = f[x] + Total(f, T)
    BY <2>1, <2>2, <2>3, TotalRemove
  <2>6. Total(g, U) = g[x] + Total(g, T)
    BY <2>1, <2>2, <2>4, TotalRemove
  <2>7. Total(g, U) = Total(f, U)
    BY <1>2, <2>1, <2>5, <2>6
  <2>8. QED
    BY <2>1, <2>7 DEF U
<1>3. Good \in SUBSET SUBSET S
  OBVIOUS
<1>4. S \in Good
  <2> HIDE DEF Good
  <2>1. QED
    BY <1>1, <1>2, <1>3, OneByOne
<1>5. QED
  BY <1>4

\* A total of zeros.
LEMMA TotalOfZeros ==
  ASSUME NEW S, IsFiniteSet(S), NEW f, \A i \in S : f[i] = 0
  PROVE  Total(f, S) = 0
<1> DEFINE Good == {T \in SUBSET S : Total(f, T) = 0}
<1>1. {} \in Good
  BY TotalOfNone
<1>2. ASSUME NEW T \in Good, NEW x \in S \ T PROVE T \union {x} \in Good
  <2> DEFINE U == T \union {x}
  <2>1. U \in SUBSET S /\ x \in U /\ U \ {x} = T /\ f[x] = 0
    BY <1>2
  <2>2. IsFiniteSet(U)
    BY <2>1, FS_Subset
  <2>3. \A i \in U : f[i] \in Nat
    BY <2>1
  <2> HIDE DEF U
  <2>4. Total(f, U) = f[x] + Total(f, T)
    BY <2>1, <2>2, <2>3, TotalRemove
  <2>5. Total(f, U) = 0
    BY <1>2, <2>1, <2>4
  <2>6. QED
    BY <2>1, <2>5 DEF U
<1>3. Good \in SUBSET SUBSET S
  OBVIOUS
<1>4. S \in Good
  <2> HIDE DEF Good
  <2>1. QED
    BY <1>1, <1>2, <1>3, OneByOne
<1>5. QED
  BY <1>4

\* One value is larger by one.
LEMMA TotalPlusOne ==
  ASSUME NEW S, IsFiniteSet(S), NEW f, NEW g, \A i \in S : f[i] \in Nat,
         NEW x \in S, g[x] = f[x] + 1, \A i \in S \ {x} : g[i] = f[i]
  PROVE  Total(g, S) = Total(f, S) + 1
<1>1. IsFiniteSet(S \ {x})
  BY FS_Difference, FS_Subset
<1>2. \A i \in S \ {x} : f[i] \in Nat /\ g[i] = f[i]
  OBVIOUS
<1>3. Total(g, S \ {x}) = Total(f, S \ {x})
  BY <1>1, <1>2, TotalSame
<1>4. \A i \in S : g[i] \in Nat
  OBVIOUS
<1>5. Total(g, S) = g[x] + Total(g, S \ {x})
  BY <1>4, TotalRemove
<1>6. Total(f, S) = f[x] + Total(f, S \ {x})
  BY TotalRemove
<1>7. f[x] \in Nat /\ Total(f, S \ {x}) \in Nat
  BY <1>1, TotalType
<1>8. (f[x] + 1) + Total(f, S \ {x}) = (f[x] + Total(f, S \ {x})) + 1
  BY <1>7
<1>9. QED
  BY <1>3, <1>5, <1>6, <1>8

-----------------------------------------------------------------------------
(* What is allowed in a stretch of time. *)

\* Per tick, the checks that were allowed on a count.
countedAt == [t \in 0..MaxTicks |-> allowedAt[t] - openAt[t]]

\* Nothing is counted more often than there were checks, and what was let through
\* without a count is part of what was allowed.
RateType ==
  /\ LimiterTypeOK
  /\ bucket \in [count : 0..hits, expires : {NoExpiry} \union 0..MaxTicks + Window, window : 0..hits]
  /\ \A t \in 0..MaxTicks : openAt[t] <= allowedAt[t]

\* Nothing is counted yet after now, before the first bucket, or in one that is over.
QuietInv == \A t \in 0..MaxTicks :
  now < t \/ bucket.count = 0 \/ (bucket.expires # NoExpiry /\ bucket.expires <= t) => countedAt[t] = 0

\* The bucket in place began at s.
BegunAt(s) ==
  /\ bucket.expires # NoExpiry => s + Window <= bucket.expires
  /\ Total(countedAt, s..MaxTicks) <= bucket.count /\ Total(countedAt, s..MaxTicks) <= Limit
  /\ \A t \in 0..MaxTicks : t < s /\ s < t + Window => Total(countedAt, t..s-1) <= Limit

StretchInv == \A t \in 0..MaxTicks : Total(countedAt, Stretch(t)) <= 2 * Limit

RateInv == RateType /\ QuietInv /\ (\E s \in 0..now : BegunAt(s)) /\ StretchInv

-----------------------------------------------------------------------------
LEMMA LimiterConstants == Window \in Nat \ {0} /\ MaxTicks \in Nat /\ MaxHits \in Nat /\ Limit \in Nat \ {0}
<1>1. \A a, b \in Nat \ {0} : a * b \in Nat \ {0}
  OBVIOUS
<1>2. QED
  BY <1>1, LimiterAssumption DEF Window

\* A stretch is a window long, or ends with the clock.
LEMMA StretchIs ==
  ASSUME NEW t \in 0..MaxTicks
  PROVE  /\ Stretch(t) \subseteq t..MaxTicks
         /\ \A i \in Stretch(t) : i < t + Window
         /\ \A i \in t..MaxTicks : i < t + Window => i \in Stretch(t)
         /\ IsFiniteSet(Stretch(t)) /\ Stretch(t) \subseteq 0..MaxTicks
<1> DEFINE end == Min({t + Window - 1, MaxTicks})
<1>1. \E x \in {t + Window - 1, MaxTicks} : \A y \in {t + Window - 1, MaxTicks} : x <= y
  <2>1. CASE t + Window - 1 <= MaxTicks
    BY <2>1, LimiterConstants
  <2>2. CASE MaxTicks <= t + Window - 1
    BY <2>2, LimiterConstants
  <2>3. QED
    BY <2>1, <2>2, LimiterConstants
<1>2. end \in {t + Window - 1, MaxTicks} /\ \A y \in {t + Window - 1, MaxTicks} : end <= y
  BY <1>1 DEF Min
<1>3. end \in Int /\ end <= t + Window - 1 /\ end <= MaxTicks
  BY <1>2, LimiterConstants
<1>4. IsFiniteSet(t..end)
  <2> HIDE DEF end
  <2>1. QED
    BY <1>3, FS_Interval
<1>5. Stretch(t) = t..end
  BY DEF Stretch
<1> HIDE DEF end
<1>6. QED
  BY <1>2, <1>3, <1>4, <1>5, LimiterConstants

\* How often a check was allowed, per tick.
Hits == [0..MaxTicks -> Nat]

\* A stretch that reaches the tick s is in two buckets at most.
LEMMA TwoWindows ==
  ASSUME NEW a \in Hits, NEW s \in 0..MaxTicks, NEW t \in 0..MaxTicks, s < t + Window,
         Total(a, s..MaxTicks) <= Limit,
         \A u \in 0..MaxTicks : u < s /\ s < u + Window => Total(a, u..s-1) <= Limit
  PROVE  Total(a, Stretch(t)) <= 2 * Limit
<1>1. /\ IsFiniteSet(s..MaxTicks) /\ IsFiniteSet(t..s-1) /\ IsFiniteSet(t..MaxTicks)
      /\ s..MaxTicks \subseteq 0..MaxTicks /\ t..MaxTicks \subseteq 0..MaxTicks /\ t..s-1 \subseteq 0..MaxTicks
  BY LimiterConstants, FS_Interval
<1>2. Stretch(t) \in SUBSET (t..MaxTicks)
  BY StretchIs
<1>3. \A i \in 0..MaxTicks : a[i] \in Nat
  BY DEF Hits
<1>4. CASE s <= t
  <2>1. Stretch(t) \in SUBSET (s..MaxTicks)
    BY <1>2, <1>4
  <2>2. Total(a, Stretch(t)) \in Nat /\ Total(a, s..MaxTicks) \in Nat /\ Total(a, Stretch(t)) <= Total(a, s..MaxTicks)
    BY <1>1, <1>3, <2>1, TotalLess
  <2>3. QED
    BY <2>2, LimiterConstants
<1>5. CASE t < s
  <2>1. (t..s-1) \union (s..MaxTicks) = t..MaxTicks /\ (t..s-1) \cap (s..MaxTicks) = {}
    BY <1>5, LimiterConstants
  <2>2. \A i \in (t..s-1) \union (s..MaxTicks) : a[i] \in Nat
    BY <1>1, <1>3
  <2>3. Total(a, (t..s-1) \union (s..MaxTicks)) = Total(a, t..s-1) + Total(a, s..MaxTicks)
    BY <1>1, <2>1, <2>2, TotalSplit
  <2>4. Total(a, t..MaxTicks) = Total(a, t..s-1) + Total(a, s..MaxTicks)
    BY <2>1, <2>3
  <2>5. Total(a, t..s-1) <= Limit
    BY <1>5
  <2>6. \A i \in t..MaxTicks : a[i] \in Nat
    BY <1>1, <1>3
  <2>7. Total(a, Stretch(t)) \in Nat /\ Total(a, Stretch(t)) <= Total(a, t..MaxTicks)
    BY <1>1, <1>2, <2>6, TotalLess
  <2>8. Total(a, t..s-1) \in Nat
    BY <1>1, <1>3, TotalType
  <2>9. Total(a, s..MaxTicks) \in Nat
    BY <1>1, <1>3, TotalType
  <2>10. QED
    BY <2>4, <2>5, <2>7, <2>8, <2>9, LimiterConstants
<1>6. QED
  BY <1>4, <1>5

\* A hit more at x.
LEMMA OneMoreHit ==
  ASSUME NEW a \in Hits, NEW x \in 0..MaxTicks, NEW b \in Hits,
         b[x] = a[x] + 1, \A i \in (0..MaxTicks) \ {x} : b[i] = a[i],
         NEW S \in SUBSET (0..MaxTicks)
  PROVE  /\ x \in S => Total(b, S) = Total(a, S) + 1
         /\ x \notin S => Total(b, S) = Total(a, S)
<1>1. IsFiniteSet(S)
  <2>1. IsFiniteSet(0..MaxTicks)
    BY LimiterConstants, FS_Interval
  <2>2. QED
    BY <2>1, FS_Subset
<1>2. \A i \in S : a[i] \in Nat
  BY DEF Hits
<1>3. CASE x \in S
  <2>1. \A i \in S \ {x} : b[i] = a[i]
    OBVIOUS
  <2>2. QED
    BY <1>1, <1>2, <1>3, <2>1, TotalPlusOne
<1>4. CASE x \notin S
  <2>1. \A i \in S : a[i] \in Nat /\ b[i] = a[i]
    BY <1>2, <1>4
  <2>2. Total(b, S) = Total(a, S)
    BY <1>1, <2>1, TotalSame
  <2>3. QED
    BY <1>4, <2>2
<1>5. QED
  BY <1>3, <1>4

\* A hit that makes the count n.
CountHit(n) == countedAt' = IF WithinLimit(n) THEN [countedAt EXCEPT ![now] = @ + 1] ELSE countedAt

\* The bucket goes on counting, another begins, or nothing is counted.
GoesOn ==
  /\ Current /\ now' = now
  /\ bucket'.count = bucket.count + 1 /\ bucket'.expires = bucket.expires
  /\ CountHit(bucket'.count)
Begins ==
  /\ ~Current /\ now' = now
  /\ bucket'.count = 1 /\ bucket'.expires \in {NoExpiry, now + Window}
  /\ CountHit(bucket'.count)
Lasts ==
  /\ now' \in {now, now + 1} /\ bucket'.count = bucket.count
  /\ \/ bucket'.expires = bucket.expires
     \/ bucket.expires = NoExpiry /\ bucket'.expires = now + Window
  /\ countedAt' = countedAt

\* What the type says of the parts the argument is about.
LEMMA RateTypes ==
  ASSUME RateType
  PROVE  /\ countedAt \in Hits /\ now \in 0..MaxTicks /\ bucket.count \in Nat
         /\ bucket.expires \in Int /\ bucket.expires >= -1
<1>1. now \in 0..MaxTicks /\ hits \in 0..MaxHits
  BY DEF RateType, LimiterTypeOK
<1>2. bucket.count \in 0..hits /\ bucket.expires \in {NoExpiry} \union 0..MaxTicks + Window
  BY DEF RateType
<1>3. \A t \in 0..MaxTicks : allowedAt[t] - openAt[t] \in Nat
  BY DEF RateType, LimiterTypeOK
<1>4. countedAt \in Hits
  BY <1>3 DEF Hits, countedAt
<1>5. QED
  BY <1>1, <1>2, <1>4, LimiterConstants DEF NoExpiry

\* A total of hits is a number.
LEMMA HitsType ==
  ASSUME NEW a \in Hits, NEW S \in SUBSET (0..MaxTicks)
  PROVE  IsFiniteSet(S) /\ Total(a, S) \in Nat
<1>1. IsFiniteSet(0..MaxTicks)
  BY LimiterConstants, FS_Interval
<1>2. IsFiniteSet(S)
  BY <1>1, FS_Subset
<1>3. \A i \in S : a[i] \in Nat
  BY DEF Hits
<1>4. QED
  BY <1>2, <1>3, TotalType

\* A hit on the bucket in place.
LEMMA GoesOnKeeps ==
  ASSUME RateInv, RateType', GoesOn
  PROVE  RateInv'
<1>1. PICK s \in 0..now : BegunAt(s)
  BY DEF RateInv
<1>2. /\ countedAt \in Hits /\ now \in 0..MaxTicks /\ bucket.count \in Nat
      /\ bucket.expires \in Int /\ s \in 0..MaxTicks /\ s <= now
  <2>1. RateType
    BY DEF RateInv
  <2>2. countedAt \in Hits /\ now \in 0..MaxTicks /\ bucket.count \in Nat /\ bucket.expires \in Int
    BY <2>1, RateTypes
  <2>3. QED
    BY <1>1, <2>2, LimiterConstants
<1>3. now' = now /\ bucket'.count = bucket.count + 1 /\ bucket'.expires = bucket.expires
  BY DEF GoesOn
<1>4. CASE countedAt' = countedAt /\ bucket'.count > Limit
  <2>1. BegunAt(s)'
    <3>1. Total(countedAt, s..MaxTicks) <= bucket.count + 1
      <4>1. Total(countedAt, s..MaxTicks) <= Limit /\ Limit \in Nat
        BY <1>1, LimiterConstants DEF BegunAt
      <4>2. Total(countedAt, s..MaxTicks) \in Nat
        <5>1. s..MaxTicks \in SUBSET (0..MaxTicks)
          BY <1>2, LimiterConstants
        <5>2. QED
          BY <1>2, <5>1, HitsType
      <4>3. QED
        BY <1>2, <1>3, <1>4, <4>1, <4>2
    <3>2. QED
      BY <1>1, <1>3, <1>4, <3>1 DEF BegunAt
  <2>2. QuietInv'
    BY <1>2, <1>3, <1>4 DEF RateInv, QuietInv
  <2>3. StretchInv'
    BY <1>4 DEF RateInv, StretchInv
  <2>4. QED
    BY <1>3, <2>1, <2>2, <2>3 DEF RateInv
<1>5. CASE countedAt' = [countedAt EXCEPT ![now] = @ + 1] /\ bucket'.count <= Limit
  <2>a. /\ countedAt' \in Hits /\ countedAt'[now] = countedAt[now] + 1
        /\ \A i \in (0..MaxTicks) \ {now} : countedAt'[i] = countedAt[i]
    BY <1>2, <1>5 DEF Hits
  <2>1. ASSUME NEW S \in SUBSET (0..MaxTicks)
        PROVE  /\ now \in S => Total(countedAt', S) = Total(countedAt, S) + 1
               /\ now \notin S => Total(countedAt', S) = Total(countedAt, S)
    BY <1>2, <2>a, OneMoreHit
  <2>2. Total(countedAt', s..MaxTicks) <= bucket'.count /\ Total(countedAt', s..MaxTicks) <= Limit
    <3>1. now \in s..MaxTicks /\ s..MaxTicks \in SUBSET (0..MaxTicks)
      BY <1>1, <1>2, LimiterConstants
    <3>2. Total(countedAt', s..MaxTicks) = Total(countedAt, s..MaxTicks) + 1
      BY <2>1, <3>1
    <3>3. Total(countedAt, s..MaxTicks) <= bucket.count
      BY <1>1 DEF BegunAt
    <3>4. Total(countedAt, s..MaxTicks) \in Nat
      BY <1>2, <3>1, HitsType
    <3>5. QED
      BY <1>2, <1>3, <1>5, <3>2, <3>3, <3>4, LimiterConstants
  <2>3. ASSUME NEW t \in 0..MaxTicks, t < s, s < t + Window
        PROVE  Total(countedAt', t..s-1) <= Limit
    <3>1. now \notin t..s-1 /\ t..s-1 \in SUBSET (0..MaxTicks)
      BY <1>2, <2>3, LimiterConstants
    <3>2. Total(countedAt, t..s-1) <= Limit
      BY <1>1, <2>3 DEF BegunAt
    <3>3. QED
      BY <2>1, <3>1, <3>2
  <2>4. BegunAt(s)'
    BY <1>1, <1>3, <2>2, <2>3 DEF BegunAt
  <2>5. QuietInv'
    <3>1. SUFFICES ASSUME NEW t \in 0..MaxTicks,
                          now < t \/ bucket'.count = 0 \/ (bucket.expires # NoExpiry /\ bucket.expires <= t)
                   PROVE  countedAt'[t] = 0
      BY <1>3 DEF QuietInv
    <3>2. bucket.expires = NoExpiry \/ bucket.expires > now
      BY DEF GoesOn, Current
    <3>3. t # now
      BY <1>2, <1>3, <3>1, <3>2
    <3>4. countedAt[t] = 0
      BY <1>2, <1>3, <3>1 DEF RateInv, QuietInv
    <3>5. QED
      BY <1>2, <1>5, <3>3, <3>4 DEF Hits
  <2>6. StretchInv'
    <3>1. ASSUME NEW t \in 0..MaxTicks PROVE Total(countedAt', Stretch(t)) <= 2 * Limit
      <4>1. Stretch(t) \in SUBSET (0..MaxTicks)
        BY StretchIs
      <4>2. CASE now \notin Stretch(t)
        <5>1. Total(countedAt, Stretch(t)) <= 2 * Limit
          BY DEF RateInv, StretchInv
        <5>2. QED
          BY <2>1, <4>1, <4>2, <5>1
      <4>3. CASE now \in Stretch(t)
        <5>1. s < t + Window
          <6>1. now < t + Window
            BY <4>3, StretchIs
          <6>2. QED
            BY <1>1, <1>2, <6>1, LimiterConstants
        <5>2. QED
          BY <1>2, <2>a, <2>2, <2>3, <5>1, TwoWindows
      <4>4. QED
        BY <4>2, <4>3
    <3>2. QED
      BY <3>1 DEF StretchInv
  <2>7. QED
    BY <1>3, <2>4, <2>5, <2>6 DEF RateInv
<1>6. QED
  <2>1. bucket'.count \in Int
    BY <1>2, <1>3
  <2>2. bucket'.count <= Limit \/ bucket'.count > Limit
    BY <2>1, LimiterConstants
  <2>3. QED
    BY <1>4, <1>5, <2>1, <2>2, LimiterConstants DEF GoesOn, CountHit, WithinLimit

\* A hit that opens a bucket: the one before is over.
LEMMA BeginsKeeps ==
  ASSUME RateInv, RateType', Begins
  PROVE  RateInv'
<1>1. PICK s \in 0..now : BegunAt(s)
  BY DEF RateInv
<1>2. /\ countedAt \in Hits /\ now \in 0..MaxTicks /\ bucket.count \in Nat
      /\ bucket.expires \in Int /\ bucket.expires >= -1 /\ s \in 0..MaxTicks /\ s <= now
  <2>1. RateType
    BY DEF RateInv
  <2>2. /\ countedAt \in Hits /\ now \in 0..MaxTicks /\ bucket.count \in Nat
        /\ bucket.expires \in Int /\ bucket.expires >= -1
    BY <2>1, RateTypes
  <2>3. QED
    BY <1>1, <2>2, LimiterConstants
<1>3. now' = now /\ bucket'.count = 1 /\ bucket'.expires \in {NoExpiry, now + Window}
  BY DEF Begins
<1>4. /\ countedAt' \in Hits /\ countedAt'[now] = countedAt[now] + 1
      /\ \A i \in (0..MaxTicks) \ {now} : countedAt'[i] = countedAt[i]
  <2>1. countedAt' = [countedAt EXCEPT ![now] = @ + 1]
    BY LimiterConstants DEF Begins, CountHit, WithinLimit
  <2>2. QED
    BY <1>2, <2>1 DEF Hits
<1>5. ASSUME NEW S \in SUBSET (0..MaxTicks)
      PROVE  /\ now \in S => Total(countedAt', S) = Total(countedAt, S) + 1
             /\ now \notin S => Total(countedAt', S) = Total(countedAt, S)
  BY <1>2, <1>4, OneMoreHit
\* The bucket before is over, if there was one.
<1>6. bucket.count = 0 \/ (bucket.expires # NoExpiry /\ bucket.expires <= now)
  BY <1>2 DEF Begins, Current
<1>7. Total(countedAt', now..MaxTicks) = 1
  <2>1. now..MaxTicks \in SUBSET (0..MaxTicks) /\ now \in now..MaxTicks
    BY <1>2, LimiterConstants
  <2>2. ASSUME NEW i \in now..MaxTicks PROVE countedAt[i] = 0
    <3>1. i \in 0..MaxTicks
      BY <2>1
    <3>2. bucket.count = 0 \/ (bucket.expires # NoExpiry /\ bucket.expires <= i)
      BY <1>2, <1>6
    <3>3. QED
      BY <3>1, <3>2 DEF RateInv, QuietInv
  <2>3. Total(countedAt, now..MaxTicks) = 0
    <3>1. IsFiniteSet(now..MaxTicks)
      BY <1>2, LimiterConstants, FS_Interval
    <3>2. QED
      BY <2>2, <3>1, TotalOfZeros
  <2>4. Total(countedAt', now..MaxTicks) = Total(countedAt, now..MaxTicks) + 1
    BY <1>5, <2>1
  <2>5. QED
    BY <2>3, <2>4
<1>8. ASSUME NEW t \in 0..MaxTicks, t < now, now < t + Window
      PROVE  Total(countedAt', t..now-1) <= Limit
  <2>1. t..now-1 \in SUBSET (0..MaxTicks) /\ now \notin t..now-1
    BY <1>2, LimiterConstants
  <2>2. Total(countedAt', t..now-1) = Total(countedAt, t..now-1)
    BY <1>5, <2>1
  <2>3. CASE bucket.count = 0
    <3>1. \A i \in t..now-1 : countedAt[i] = 0
      BY <2>1, <2>3 DEF RateInv, QuietInv
    <3>2. IsFiniteSet(t..now-1)
      BY <1>2, <2>1, HitsType
    <3>3. Total(countedAt, t..now-1) = 0
      BY <3>1, <3>2, TotalOfZeros
    <3>4. QED
      BY <2>2, <3>3, LimiterConstants
  <2>4. CASE bucket.expires # NoExpiry /\ bucket.expires <= now
    <3>1. s + Window <= bucket.expires
      BY <1>1, <2>4 DEF BegunAt
    <3>2. s < t
      BY <1>2, <1>8, <2>4, <3>1, LimiterConstants
    <3>3. t..now-1 \in SUBSET (s..MaxTicks) /\ s..MaxTicks \in SUBSET (0..MaxTicks)
      BY <1>2, <3>2, LimiterConstants
    <3>4. IsFiniteSet(s..MaxTicks) /\ \A i \in s..MaxTicks : countedAt[i] \in Nat
      BY <1>2, <3>3, HitsType DEF Hits
    <3>5. /\ Total(countedAt, t..now-1) \in Nat /\ Total(countedAt, s..MaxTicks) \in Nat
          /\ Total(countedAt, t..now-1) <= Total(countedAt, s..MaxTicks)
      BY <3>3, <3>4, TotalLess
    <3>6. Total(countedAt, s..MaxTicks) <= Limit
      BY <1>1 DEF BegunAt
    <3>7. QED
      BY <2>2, <3>5, <3>6, LimiterConstants
  <2>5. QED
    BY <1>6, <2>3, <2>4
<1>9. BegunAt(now)'
  <2>1. bucket'.expires # NoExpiry => now + Window <= bucket'.expires
    BY <1>2, <1>3, LimiterConstants
  <2>2. Total(countedAt', now..MaxTicks) <= bucket'.count /\ Total(countedAt', now..MaxTicks) <= Limit
    BY <1>3, <1>7, LimiterConstants
  <2>3. QED
    BY <1>3, <1>8, <2>1, <2>2 DEF BegunAt
<1>10. QuietInv'
  <2>1. SUFFICES ASSUME NEW t \in 0..MaxTicks,
                        now < t \/ (bucket'.expires # NoExpiry /\ bucket'.expires <= t)
                 PROVE  countedAt'[t] = 0
    BY <1>3 DEF QuietInv
  <2>2. now < t
    BY <1>2, <1>3, <2>1, LimiterConstants
  <2>3. countedAt[t] = 0
    BY <2>2 DEF RateInv, QuietInv
  <2>4. QED
    BY <1>2, <1>4, <2>2, <2>3
<1>11. StretchInv'
  <2>1. ASSUME NEW t \in 0..MaxTicks PROVE Total(countedAt', Stretch(t)) <= 2 * Limit
    <3>1. Stretch(t) \in SUBSET (0..MaxTicks)
      BY StretchIs
    <3>2. CASE now \notin Stretch(t)
      <4>1. Total(countedAt, Stretch(t)) <= 2 * Limit
        BY DEF RateInv, StretchInv
      <4>2. QED
        BY <1>5, <3>1, <3>2, <4>1
    <3>3. CASE now \in Stretch(t)
      <4>1. now < t + Window
        BY <3>3, StretchIs
      <4>2. Total(countedAt', now..MaxTicks) <= Limit
        BY <1>7, LimiterConstants
      <4>3. QED
        BY <1>2, <1>4, <1>8, <4>1, <4>2, TwoWindows
    <3>4. QED
      BY <3>2, <3>3
  <2>2. QED
    BY <2>1 DEF StretchInv
<1>12. now \in (0..now)'
  BY <1>2, <1>3
<1>13. QED
  BY <1>9, <1>10, <1>11, <1>12, <1>3 DEF RateInv

\* No hit is counted; the clock may tick, and the bucket may get its end.
LEMMA LastsKeeps ==
  ASSUME RateInv, RateType', Lasts
  PROVE  RateInv'
<1>1. PICK s \in 0..now : BegunAt(s)
  BY DEF RateInv
<1>2. now \in 0..MaxTicks /\ bucket.expires \in Int /\ s <= now
  <2>1. RateType
    BY DEF RateInv
  <2>2. now \in 0..MaxTicks /\ bucket.expires \in Int
    BY <2>1, RateTypes
  <2>3. QED
    BY <1>1, <2>2, LimiterConstants
<1>3. /\ now' \in {now, now + 1} /\ bucket'.count = bucket.count /\ countedAt' = countedAt
      /\ \/ bucket'.expires = bucket.expires
         \/ bucket.expires = NoExpiry /\ bucket'.expires = now + Window
  BY DEF Lasts
<1>4. BegunAt(s)'
  <2>1. bucket'.expires # NoExpiry => s + Window <= bucket'.expires
    BY <1>1, <1>2, <1>3, LimiterConstants DEF BegunAt
  <2>2. QED
    BY <1>1, <1>3, <2>1 DEF BegunAt
<1>5. QuietInv'
  <2>1. SUFFICES ASSUME NEW t \in 0..MaxTicks,
                        \/ now' < t \/ bucket.count = 0
                        \/ bucket'.expires # NoExpiry /\ bucket'.expires <= t
                 PROVE  countedAt[t] = 0
    BY <1>3 DEF QuietInv
  <2>2. now < t \/ bucket.count = 0 \/ (bucket.expires # NoExpiry /\ bucket.expires <= t)
    BY <1>2, <1>3, <2>1, LimiterConstants
  <2>3. QED
    BY <2>2 DEF RateInv, QuietInv
<1>6. StretchInv'
  BY <1>3 DEF RateInv, StretchInv
<1>7. s \in (0..now)'
  BY <1>1, <1>2, <1>3
<1>8. QED
  BY <1>4, <1>5, <1>6, <1>7 DEF RateInv

\* What a check may do to the hits of this tick: allow one on a count, allow one
\* without, or nothing.
Counts(n) == Allow(n) /\ UNCHANGED openAt
Opens == AllowUncounted
Idles == UNCHANGED <<allowedAt, openAt>>

LEMMA CountsHits ==
  ASSUME RateType, NEW n \in Nat, Counts(n)
  PROVE  CountHit(n) /\ \A t \in 0..MaxTicks : openAt'[t] <= allowedAt'[t]
<1>1. allowedAt \in [0..MaxTicks -> Nat] /\ openAt \in [0..MaxTicks -> Nat] /\ now \in 0..MaxTicks
  BY DEF RateType, LimiterTypeOK
<1>2. openAt' = openAt
  BY DEF Counts
<1>3. CASE WithinLimit(n)
  <2>1. allowedAt' = [allowedAt EXCEPT ![now] = @ + 1]
    BY <1>3 DEF Counts, Allow
  <2>2. \A t \in 0..MaxTicks :
          allowedAt'[t] - openAt'[t] = IF t = now THEN (allowedAt[t] - openAt[t]) + 1 ELSE allowedAt[t] - openAt[t]
    BY <1>1, <1>2, <2>1
  <2>3. countedAt' = [countedAt EXCEPT ![now] = @ + 1]
    BY <1>1, <2>2 DEF countedAt
  <2>4. \A t \in 0..MaxTicks : openAt'[t] <= allowedAt'[t]
    BY <1>1, <1>2, <2>1 DEF RateType
  <2>5. QED
    BY <1>3, <2>3, <2>4 DEF CountHit
<1>4. CASE ~WithinLimit(n)
  BY <1>2, <1>4 DEF Counts, Allow, CountHit, countedAt, RateType
<1>5. QED
  BY <1>3, <1>4

LEMMA OpensHits ==
  ASSUME RateType, Opens
  PROVE  countedAt' = countedAt /\ \A t \in 0..MaxTicks : openAt'[t] <= allowedAt'[t]
<1>1. allowedAt \in [0..MaxTicks -> Nat] /\ openAt \in [0..MaxTicks -> Nat] /\ now \in 0..MaxTicks
  BY DEF RateType, LimiterTypeOK
<1>2. allowedAt' = [allowedAt EXCEPT ![now] = @ + 1] /\ openAt' = [openAt EXCEPT ![now] = @ + 1]
  BY LimiterConstants DEF Opens, AllowUncounted, Allow, WithinLimit
<1>3. \A t \in 0..MaxTicks : allowedAt'[t] - openAt'[t] = allowedAt[t] - openAt[t]
  BY <1>1, <1>2
<1>4. \A t \in 0..MaxTicks : openAt'[t] <= allowedAt'[t]
  BY <1>1, <1>2 DEF RateType
<1>5. QED
  BY <1>3, <1>4 DEF countedAt

\* Counts and windows are never more than the checks so far.
LEMMA RateNextType ==
  ASSUME RateType, [LimiterNext]_limiterVars
  PROVE  RateType'
<1> DEFINE Buckets(n) == [count : 0..n, expires : {NoExpiry} \union 0..MaxTicks + Window, window : 0..n]
           Pcs == [LimiterCalls -> {"idle", "expire", "pttl", "untimed"}]
<1>a. MaxHits \in Nat /\ MaxTicks \in Nat /\ Window \in Nat \ {0} /\ 1 <= MaxTicks + Window
  BY LimiterConstants
<1>b. /\ bucket.count \in 0..hits /\ bucket.window \in 0..hits /\ hits \in 0..MaxHits /\ now \in 0..MaxTicks
      /\ bucket.expires \in {NoExpiry} \union 0..MaxTicks + Window
      /\ bucket = [count |-> bucket.count, expires |-> bucket.expires, window |-> bucket.window]
      /\ bucket \in Buckets(hits) /\ limiterPc \in Pcs /\ limiterKind \in LimiterKinds
  BY <1>a DEF RateType, LimiterTypeOK
<1>c. allowedAt \in [0..MaxTicks -> Nat] /\ openAt \in [0..MaxTicks -> Nat]
  BY DEF RateType, LimiterTypeOK
\* What a step has to show.
<1>1. ASSUME limiterKind' = limiterKind, now' \in 0..MaxTicks, hits' \in 0..MaxHits,
             bucket' \in Buckets(hits'), limiterPc' \in Pcs,
             Idles \/ Opens \/ \E n \in Nat : Counts(n)
      PROVE  RateType'
  <2>1. allowedAt' \in [0..MaxTicks -> Nat] /\ openAt' \in [0..MaxTicks -> Nat]
    <3>1. CASE Idles
      BY <1>c, <3>1 DEF Idles
    <3>2. CASE Opens
      BY <1>b, <1>c, <3>2 DEF Opens, AllowUncounted, Allow
    <3>3. ASSUME NEW n \in Nat, Counts(n)
          PROVE  allowedAt' \in [0..MaxTicks -> Nat] /\ openAt' \in [0..MaxTicks -> Nat]
      BY <1>b, <1>c, <3>3 DEF Counts, Allow
    <3>4. QED
      BY <1>1, <3>1, <3>2, <3>3
  <2>2. \A t \in 0..MaxTicks : openAt'[t] <= allowedAt'[t]
    <3>1. CASE Idles
      BY <3>1 DEF Idles, RateType
    <3>2. QED
      BY <1>1, <3>1, OpensHits, CountsHits
  <2>3. /\ bucket'.count \in 0..MaxHits /\ bucket'.window \in 0..MaxHits
        /\ bucket'.expires \in {NoExpiry} \union 0..MaxTicks + Window
    BY <1>a, <1>1
  <2>4. LimiterTypeOK'
    BY <1>b, <1>1, <2>1, <2>3 DEF LimiterTypeOK
  <2>5. QED
    BY <1>1, <2>2, <2>4 DEF RateType
<1>2. CASE Tick
  BY <1>a, <1>b, <1>1, <1>2 DEF Tick, Idles
\* A check is counted in the bucket in place, or in a new one.
<1>3. ASSUME NEW end \in {NoExpiry, now + Window}
      PROVE  LET next == IF Current THEN [bucket EXCEPT !.count = @ + 1]
                         ELSE [count |-> 1, expires |-> end, window |-> bucket.window + 1]
             IN  next \in Buckets(hits + 1) /\ next.count \in Nat
  <2>1. /\ bucket.count + 1 \in 0..hits + 1 /\ bucket.window \in 0..hits + 1 /\ bucket.window + 1 \in 0..hits + 1
        /\ 1 \in 0..hits + 1
    BY <1>a, <1>b
  <2>2. end \in {NoExpiry} \union 0..MaxTicks + Window
    BY <1>a, <1>b, <1>3
  <2>3. CASE Current
    BY <1>b, <2>1, <2>3
  <2>4. CASE ~Current
    BY <2>1, <2>2, <2>4
  <2>5. QED
    BY <2>3, <2>4
<1>4. CASE MemoryCheck
  <2> DEFINE next == IF Current THEN [bucket EXCEPT !.count = @ + 1]
                     ELSE [count |-> 1, expires |-> now + Window, window |-> bucket.window + 1]
  <2>1. next \in Buckets(hits + 1) /\ next.count \in Nat
    BY <1>3
  <2>2. /\ hits < MaxHits /\ hits' = hits + 1 /\ UNCHANGED <<limiterKind, now, limiterPc, openAt>>
        /\ bucket' = next /\ Allow(next.count)
    BY <1>4 DEF MemoryCheck
  <2> HIDE DEF next
  <2>3. Counts(next.count)
    BY <2>2 DEF Counts
  <2>4. hits' \in 0..MaxHits
    BY <1>a, <1>b, <2>2
  <2> HIDE DEF Buckets, Pcs
  <2>5. QED
    BY <1>b, <1>1, <2>1, <2>2, <2>3, <2>4
<1>5. ASSUME NEW c \in LimiterCalls, Incr(c) PROVE RateType'
  <2> DEFINE next == IF Current THEN [bucket EXCEPT !.count = @ + 1]
                     ELSE [count |-> 1, expires |-> NoExpiry, window |-> bucket.window + 1]
  <2>1. next \in Buckets(hits + 1) /\ next.count \in Nat
    BY <1>3
  <2>2. /\ hits < MaxHits /\ hits' = hits + 1 /\ UNCHANGED <<limiterKind, now, openAt>>
        /\ limiterPc' = [limiterPc EXCEPT ![c] = "expire"]
        /\ bucket' = next /\ Allow(next.count)
    BY <1>5 DEF Incr
  <2> HIDE DEF next
  <2>3. Counts(next.count)
    BY <2>2 DEF Counts
  <2>4. hits' \in 0..MaxHits /\ limiterPc' \in Pcs
    BY <1>a, <1>b, <2>2
  <2> HIDE DEF Buckets, Pcs
  <2>5. QED
    BY <1>b, <1>1, <2>1, <2>2, <2>3, <2>4
<1>6. ASSUME NEW c \in LimiterCalls, IncrRejected(c) PROVE RateType'
  <2>1. /\ hits' \in 0..MaxHits /\ hits' = hits + 1 /\ limiterPc' \in Pcs /\ Opens
        /\ UNCHANGED <<limiterKind, now, bucket>>
    BY <1>a, <1>b, <1>6 DEF IncrRejected, Opens
  <2>2. bucket' \in Buckets(hits')
    <3>1. 0..hits \subseteq 0..hits'
      BY <1>b, <2>1
    <3>2. QED
      BY <1>b, <2>1, <3>1
  <2> HIDE DEF Buckets, Pcs
  <2>3. QED
    BY <1>b, <1>1, <2>1, <2>2
<1>7. ASSUME NEW c \in LimiterCalls, Expire(c) PROVE RateType'
  <2>1. bucket' \in Buckets(hits)
    <3>1. now + Window \in 0..MaxTicks + Window
      BY <1>a, <1>b
    <3>2. bucket' = bucket \/ bucket' = [bucket EXCEPT !.expires = now + Window]
      BY <1>7 DEF Expire
    <3>3. QED
      BY <1>b, <3>1, <3>2
  <2>2. limiterPc' \in Pcs /\ Idles /\ UNCHANGED <<limiterKind, now, hits>>
    BY <1>b, <1>7 DEF Expire, Idles
  <2> HIDE DEF Buckets, Pcs
  <2>3. QED
    BY <1>b, <1>1, <2>1, <2>2
\* The other steps of a check leave the bucket alone.
<1>8. ASSUME NEW c \in LimiterCalls,
             ExpireRejected(c) \/ Pttl(c) \/ PttlRejected(c) \/ PipelineCut(c) \/ AnswerIsError(c)
      PROVE  RateType'
  <2>1. limiterPc' \in Pcs /\ (Idles \/ Opens) /\ UNCHANGED <<limiterKind, now, hits, bucket>>
    BY <1>b, <1>8 DEF ExpireRejected, Pttl, PttlRejected, Answer, PipelineCut, AnswerIsError, EndCheck, Idles, Opens
  <2> HIDE DEF Buckets, Pcs
  <2>2. QED
    BY <1>b, <1>1, <2>1
<1>9. CASE UNCHANGED limiterVars
  BY <1>b, <1>1, <1>9 DEF limiterVars, Idles
<1>10. QED
  BY <1>2, <1>4, <1>5, <1>6, <1>7, <1>8, <1>9 DEF LimiterNext

\* Every step counts a hit on, begins a bucket, or counts nothing.
LEMMA RateSteps ==
  ASSUME RateType, [LimiterNext]_limiterVars
  PROVE  GoesOn \/ Begins \/ Lasts
<1>1. /\ bucket = [count |-> bucket.count, expires |-> bucket.expires, window |-> bucket.window]
      /\ bucket.count \in Nat
  BY DEF RateType
<1>2. ASSUME Idles PROVE countedAt' = countedAt
  BY <1>2 DEF Idles, countedAt
<1>3. ASSUME NEW end \in {NoExpiry, now + Window}, now' = now,
             Current => bucket' = [bucket EXCEPT !.count = @ + 1] /\ Counts(bucket.count + 1),
             ~Current => bucket' = [count |-> 1, expires |-> end, window |-> bucket.window + 1] /\ Counts(1)
      PROVE  GoesOn \/ Begins
  <2>1. CASE Current
    <3>1. bucket'.count = bucket.count + 1 /\ bucket'.expires = bucket.expires
      BY <1>1, <1>3, <2>1
    <3>2. CountHit(bucket'.count)
      BY <1>1, <1>3, <2>1, <3>1, CountsHits
    <3>3. QED
      BY <1>3, <2>1, <3>1, <3>2 DEF GoesOn
  <2>2. CASE ~Current
    <3>1. bucket'.count = 1 /\ bucket'.expires = end
      BY <1>3, <2>2
    <3>2. CountHit(bucket'.count)
      BY <1>3, <2>2, <3>1, CountsHits
    <3>3. QED
      BY <1>3, <2>2, <3>1, <3>2 DEF Begins
  <2>3. QED
    BY <2>1, <2>2
<1>4. CASE Tick
  <2>1. Idles /\ now' = now + 1 /\ bucket' = bucket
    BY <1>4 DEF Tick, Idles
  <2>2. QED
    BY <1>2, <2>1 DEF Lasts
<1>5. CASE MemoryCheck
  <2>1. CASE Current
    BY <1>1, <1>3, <1>5, <2>1 DEF MemoryCheck, Counts
  <2>2. CASE ~Current
    BY <1>1, <1>3, <1>5, <2>2 DEF MemoryCheck, Counts
  <2>3. QED
    BY <2>1, <2>2
<1>6. ASSUME NEW c \in LimiterCalls, Incr(c) PROVE GoesOn \/ Begins
  <2>1. CASE Current
    BY <1>1, <1>3, <1>6, <2>1 DEF Incr, Counts
  <2>2. CASE ~Current
    BY <1>1, <1>3, <1>6, <2>2 DEF Incr, Counts
  <2>3. QED
    BY <2>1, <2>2
<1>7. ASSUME NEW c \in LimiterCalls, Expire(c) PROVE Lasts
  <2>1. Idles /\ now' = now
    BY <1>7 DEF Expire, Idles
  <2>2. bucket'.count = bucket.count
        /\ \/ bucket'.expires = bucket.expires
           \/ bucket.expires = NoExpiry /\ bucket'.expires = now + Window
    BY <1>1, <1>7 DEF Expire
  <2>3. QED
    BY <1>2, <2>1, <2>2 DEF Lasts
<1>8. ASSUME NEW c \in LimiterCalls,
             IncrRejected(c) \/ ExpireRejected(c) \/ Pttl(c) \/ PttlRejected(c)
               \/ PipelineCut(c) \/ AnswerIsError(c)
      PROVE  Lasts
  <2>1. (Idles \/ Opens) /\ UNCHANGED <<now, bucket>>
    BY <1>8 DEF IncrRejected, ExpireRejected, Pttl, PttlRejected, Answer, PipelineCut, AnswerIsError, Idles, Opens
  <2>2. countedAt' = countedAt
    BY <1>2, <2>1, OpensHits
  <2>3. QED
    BY <2>1, <2>2 DEF Lasts
<1>9. CASE UNCHANGED limiterVars
  <2>1. Idles /\ now' = now /\ bucket' = bucket
    BY <1>9 DEF limiterVars, Idles
  <2>2. QED
    BY <1>2, <2>1 DEF Lasts
<1>10. QED
  BY <1>4, <1>5, <1>6, <1>7, <1>8, <1>9 DEF LimiterNext

LEMMA RateInitInv == LimiterInit => RateInv
<1> SUFFICES ASSUME LimiterInit PROVE RateInv
  OBVIOUS
<1>1. RateType
  BY LimiterConstants DEF LimiterInit, RateType, LimiterTypeOK, NoExpiry
<1>z. \A t \in 0..MaxTicks : countedAt[t] = 0
  BY DEF LimiterInit, countedAt
<1>2. ASSUME NEW S \in SUBSET (0..MaxTicks) PROVE Total(countedAt, S) = 0
  <2>1. countedAt \in Hits /\ \A i \in S : countedAt[i] = 0
    BY <1>1, <1>z, RateTypes
  <2>2. IsFiniteSet(S)
    BY <2>1, HitsType
  <2>3. QED
    BY <2>1, <2>2, TotalOfZeros
<1>3. BegunAt(0)
  <2>1. 0..MaxTicks \in SUBSET (0..MaxTicks)
    OBVIOUS
  <2>2. Total(countedAt, 0..MaxTicks) = 0
    BY <1>2, <2>1
  <2>3. QED
    BY <2>2, LimiterConstants DEF LimiterInit, BegunAt
<1>4. StretchInv
  BY <1>2, StretchIs, LimiterConstants DEF StretchInv
<1>5. QuietInv
  BY <1>z DEF QuietInv
<1>6. 0 \in 0..now
  BY DEF LimiterInit
<1>7. QED
  BY <1>1, <1>3, <1>4, <1>5, <1>6 DEF RateInv

\* The inductive invariant of what is allowed on a count: the bucket in place began at
\* some tick, and every stretch is in it, in the one before, or in both.  A check that is
\* let through for want of a count adds nothing to what the argument counts.
THEOREM RateInvariant == LimiterSpec => []RateInv
<1>1. RateInv /\ [LimiterNext]_limiterVars => RateInv'
  BY RateNextType, RateSteps, GoesOnKeeps, BeginsKeeps, LastsKeeps DEF RateInv
<1>2. QED
  BY RateInitInv, <1>1, PTL DEF LimiterSpec

\* Every reachable state of the limiter is well typed, and its counters are bounded.
THEOREM LimiterTypeCorrect == LimiterSpec => []LimiterTypeOK
<1>1. RateInv => LimiterTypeOK
  BY DEF RateInv, RateType
<1>2. QED
  BY RateInvariant, <1>1, PTL

\* What is allowed, is allowed on a count or for want of one.
LEMMA AllowedIs ==
  ASSUME NEW a \in Hits, NEW b \in Hits, NEW d \in Hits,
         \A i \in 0..MaxTicks : a[i] = b[i] + d[i],
         NEW S \in SUBSET (0..MaxTicks)
  PROVE  Total(a, S) = Total(b, S) + Total(d, S)
<1> DEFINE Good == {T \in SUBSET S : Total(a, T) = Total(b, T) + Total(d, T)}
<1>1. IsFiniteSet(S) /\ \A T \in SUBSET S : IsFiniteSet(T) /\ T \in SUBSET (0..MaxTicks)
  BY HitsType
<1>2. {} \in Good
  <2>1. Total(a, {}) = 0 /\ Total(b, {}) = 0 /\ Total(d, {}) = 0
    BY FS_EmptySet, TotalOfZeros
  <2>2. QED
    BY <2>1
<1>3. ASSUME NEW T \in Good, NEW x \in S \ T PROVE T \union {x} \in Good
  <2> DEFINE U == T \union {x}
  <2>1. U \in SUBSET S /\ IsFiniteSet(U) /\ x \in U /\ U \ {x} = T /\ U \in SUBSET (0..MaxTicks)
    BY <1>1
  <2> HIDE DEF U
  <2>2. \A i \in U : a[i] \in Nat /\ b[i] \in Nat /\ d[i] \in Nat
    BY <2>1 DEF Hits
  <2>3. Total(a, U) = a[x] + Total(a, T) /\ Total(b, U) = b[x] + Total(b, T) /\ Total(d, U) = d[x] + Total(d, T)
    BY <2>1, <2>2, TotalRemove
  <2>4. Total(a, T) \in Nat /\ Total(b, T) \in Nat /\ Total(d, T) \in Nat
    BY <1>1, HitsType
  <2>5. Total(a, T) = Total(b, T) + Total(d, T) /\ a[x] = b[x] + d[x]
    BY <2>1
  <2>6. Total(a, U) = Total(b, U) + Total(d, U)
    BY <2>1, <2>2, <2>3, <2>4, <2>5
  <2>7. QED
    BY <2>1, <2>6 DEF U
<1> HIDE DEF Good
<1>4. Good \in SUBSET SUBSET S
  BY DEF Good
<1>5. S \in Good
  BY <1>1, <1>2, <1>3, <1>4, OneByOne
<1>6. QED
  BY <1>5 DEF Good

\* For any limit, window, precision of the clock and number of callers, in both limiters,
\* a stretch as long as a window allows no more than two windows' worth of hits and
\* those that are let through because the answer had no count.
THEOREM RateIsBounded == LimiterSpec => []RateBounded
<1>1. ASSUME RateInv, NEW t \in 0..MaxTicks
      PROVE  InStretch(allowedAt, t) <= 2 * Limit + InStretch(openAt, t)
  <2>1. allowedAt \in Hits /\ openAt \in Hits /\ countedAt \in Hits
    BY <1>1, RateTypes DEF RateInv, RateType, LimiterTypeOK, Hits
  <2>2. \A i \in 0..MaxTicks : allowedAt[i] = countedAt[i] + openAt[i]
    BY <2>1 DEF countedAt, Hits
  <2>3. Stretch(t) \in SUBSET (0..MaxTicks)
    BY StretchIs
  <2>4. Total(allowedAt, Stretch(t)) = Total(countedAt, Stretch(t)) + Total(openAt, Stretch(t))
    BY <2>1, <2>2, <2>3, AllowedIs
  <2>5. Total(countedAt, Stretch(t)) \in Nat /\ Total(openAt, Stretch(t)) \in Nat
    BY <2>1, <2>3, HitsType
  <2>6. Total(countedAt, Stretch(t)) <= 2 * Limit
    BY <1>1 DEF RateInv, StretchInv
  <2>7. InStretch(allowedAt, t) = Total(allowedAt, Stretch(t)) /\ InStretch(openAt, t) = Total(openAt, Stretch(t))
    BY DEF InStretch, Total
  <2>8. QED
    BY <2>4, <2>5, <2>6, <2>7, LimiterConstants
<1>2. RateInv => RateBounded
  BY <1>1 DEF RateBounded
<1>3. QED
  BY RateInvariant, <1>2, PTL

\* Only a pipeline is answered without a count.
MemoryCounts ==
  limiterKind = "memory" =>
    (\A c \in LimiterCalls : limiterPc[c] = "idle") /\ (\A t \in 0..MaxTicks : openAt[t] = 0)

LEMMA MemoryCountsStep ==
  ASSUME MemoryCounts, [LimiterNext]_limiterVars
  PROVE  MemoryCounts'
<1> SUFFICES ASSUME limiterKind' = "memory"
             PROVE  limiterPc' = limiterPc /\ openAt' = openAt /\ limiterKind = "memory"
  BY DEF MemoryCounts
<1>1. limiterKind = "memory"
  BY DEF LimiterNext, limiterVars, Tick, MemoryCheck, Incr, IncrRejected, Expire, ExpireRejected,
         Pttl, PttlRejected, Answer, PipelineCut, AnswerIsError
<1>2. ASSUME NEW c \in LimiterCalls
      PROVE  /\ ~Incr(c) /\ ~IncrRejected(c) /\ ~Expire(c) /\ ~ExpireRejected(c)
             /\ ~Pttl(c) /\ ~PttlRejected(c) /\ ~PipelineCut(c) /\ ~AnswerIsError(c)
  BY <1>1 DEF MemoryCounts, Incr, IncrRejected, Expire, ExpireRejected, Pttl, PttlRejected, Answer,
              PipelineCut, AnswerIsError
<1>3. QED
  BY <1>1, <1>2 DEF LimiterNext, Tick, MemoryCheck, limiterVars

\* In the process no check is let through without being counted, so there a stretch as
\* long as a window allows no more than two windows' worth of hits.
THEOREM MemoryRateIsBounded ==
  LimiterSpec => [](limiterKind = "memory" =>
                      \A t \in 0..MaxTicks : InStretch(allowedAt, t) <= 2 * Limit)
<1>1. LimiterInit => MemoryCounts
  BY DEF LimiterInit, MemoryCounts
<1>2. LimiterSpec => []MemoryCounts
  BY <1>1, MemoryCountsStep, PTL DEF LimiterSpec
<1>3. ASSUME MemoryCounts, RateBounded, limiterKind = "memory", NEW t \in 0..MaxTicks
      PROVE  InStretch(allowedAt, t) <= 2 * Limit
  <2>1. \A i \in Stretch(t) : openAt[i] = 0
    BY <1>3, StretchIs DEF MemoryCounts
  <2>2. Total(openAt, Stretch(t)) = 0
    BY <2>1, StretchIs, TotalOfZeros
  <2>3. InStretch(openAt, t) = 0
    BY <2>2 DEF InStretch, Total
  <2>4. InStretch(allowedAt, t) <= 2 * Limit + 0
    BY <1>3, <2>3 DEF RateBounded
  <2>5. QED
    BY <2>4, LimiterConstants
<1>4. MemoryCounts /\ RateBounded =>
        (limiterKind = "memory" => \A t \in 0..MaxTicks : InStretch(allowedAt, t) <= 2 * Limit)
  BY <1>3
<1>5. QED
  BY <1>2, <1>4, RateIsBounded, PTL
=============================================================================
