------------------------------ MODULE Sessions ------------------------------
(***************************************************************************)
(* The refresh tokens of the identity service: sign-in opens a family, a   *)
(* refresh replaces the presented token by a successor of its family, and  *)
(* a token presented again after that, or a logout, revokes the family.    *)
(*                                                                         *)
(* Every statement is a transaction of its own on either tier, so a step   *)
(* is one statement and what a call found may be stale when it writes.     *)
(***************************************************************************)
EXTENDS Integers, FiniteSets

CONSTANTS
  SessionCalls,  \* requests to the service in flight at once
  MaxTokens      \* rows that refresh_token ever gets: bounds sign-ins and refreshes

ASSUME SessionAssumption == IsFiniteSet(SessionCalls) /\ MaxTokens \in Nat

VARIABLES
  token,        \* by id: none, live, or revoked (revoked_at is set)
  family,       \* by id: family_id, named by the id of its first token
  held,         \* ids whose raw token left the service in an answer
  sessionPc,    \* per call: the statement it executes next
  presented,    \* per call: the token of its request
  minted,       \* per call: the successor it inserted
  lateRetires,  \* history, per family: refreshes whose revokeRefreshToken matched no row
  ended         \* history: families revoked while no call was about to mint in them

sessionVars == <<token, family, held, sessionPc, presented, minted, lateRetires, ended>>

Tokens == 1..MaxTokens
NoToken == 0

SessionInit ==
  /\ token = [t \in Tokens |-> "none"]
  /\ family = [t \in Tokens |-> NoToken]
  /\ held = {}
  /\ sessionPc = [c \in SessionCalls |-> "idle"]
  /\ presented = [c \in SessionCalls |-> NoToken]
  /\ minted = [c \in SessionCalls |-> NoToken]
  /\ lateRetires = [t \in Tokens |-> 0]
  /\ ended = {}

Issued == {t \in Tokens : token[t] # "none"}
NextToken == Cardinality(Issued) + 1
FamilyOf(c) == family[presented[c]]

SessionGoto(c, statement, t) ==
  /\ sessionPc' = [sessionPc EXCEPT ![c] = statement]
  /\ presented' = [presented EXCEPT ![c] = t]

\* insertRefreshToken: the row is usable as soon as somebody holds its raw token.
InsertToken(t, f) ==
  /\ t \in Tokens
  /\ token' = [token EXCEPT ![t] = "live"]
  /\ family' = [family EXCEPT ![t] = f]

\* The answer is sent, or is lost with the connection.
MayAnswer(t) == held' = held \union {t} \/ held' = held

-----------------------------------------------------------------------------
(* sign-in: POST /auth/login and the SSO callback *)

SignIn(c) ==
  /\ sessionPc[c] = "idle"
  /\ InsertToken(NextToken, NextToken)
  /\ MayAnswer(NextToken)
  /\ UNCHANGED <<sessionPc, presented, minted, lateRetires, ended>>

(* POST /auth/refresh *)

\* findRefreshByHash: a revoked token, expired or not, is a re-use and a live
\* one is rotated.  A live one that has expired ends the call and changes
\* nothing, so expires_at is left out: any live token may be refused.
FindForRefresh(c) ==
  /\ sessionPc[c] = "idle"
  /\ \E t \in held :
       \/ token[t] = "revoked" /\ SessionGoto(c, "revokeFamily", t)
       \/ token[t] = "live" /\ SessionGoto(c, "mint", t)
  /\ UNCHANGED <<token, family, held, minted, lateRetires, ended>>

\* The successor joins the family that was read, whether revoked since or not.
Mint(c) ==
  /\ sessionPc[c] = "mint"
  /\ InsertToken(NextToken, FamilyOf(c))
  /\ minted' = [minted EXCEPT ![c] = NextToken]
  /\ SessionGoto(c, "retire", presented[c])
  /\ UNCHANGED <<held, lateRetires, ended>>

\* mutant: the presented token is never revoked.
RetireSkipped(c) ==
  /\ sessionPc[c] = "retire"
  /\ MayAnswer(minted[c])
  /\ minted' = [minted EXCEPT ![c] = NoToken]
  /\ SessionGoto(c, "idle", NoToken)
  /\ UNCHANGED <<token, family, lateRetires, ended>>

\* revokeRefreshToken: no row when somebody revoked it first, and the call
\* answers with the successor all the same.
Retire(c) ==
  /\ sessionPc[c] = "retire"
  /\ token' = [token EXCEPT ![presented[c]] = "revoked"]
  /\ lateRetires' = [lateRetires EXCEPT ![FamilyOf(c)] = IF token[presented[c]] = "live" THEN @ ELSE @ + 1]
  /\ MayAnswer(minted[c])
  /\ minted' = [minted EXCEPT ![c] = NoToken]
  /\ SessionGoto(c, "idle", NoToken)
  /\ UNCHANGED <<family, ended>>

(* POST /auth/logout, and the answer to a re-use *)

FindForLogout(c) ==
  /\ sessionPc[c] = "idle"
  /\ \E t \in held : SessionGoto(c, "revokeFamily", t)
  /\ UNCHANGED <<token, family, held, minted, lateRetires, ended>>

AboutToMint(f) == {c \in SessionCalls : sessionPc[c] = "mint" /\ FamilyOf(c) = f}

\* mutant: the presented token only.
RevokePresented(c) ==
  /\ sessionPc[c] = "revokeFamily"
  /\ token' = [token EXCEPT ![presented[c]] = "revoked"]
  /\ ended' = IF AboutToMint(FamilyOf(c)) = {} THEN ended \union {FamilyOf(c)} ELSE ended
  /\ SessionGoto(c, "idle", NoToken)
  /\ UNCHANGED <<family, held, minted, lateRetires>>

RevokeFamily(c) ==
  /\ sessionPc[c] = "revokeFamily"
  /\ token' = [t \in Tokens |-> IF family[t] = FamilyOf(c) THEN "revoked" ELSE token[t]]
  /\ ended' = IF AboutToMint(FamilyOf(c)) = {} THEN ended \union {FamilyOf(c)} ELSE ended
  /\ SessionGoto(c, "idle", NoToken)
  /\ UNCHANGED <<family, held, minted, lateRetires>>

(* the environment *)

\* A query throws or the process dies: what was committed stays.
SessionFail(c) ==
  /\ sessionPc[c] # "idle"
  /\ minted' = [minted EXCEPT ![c] = NoToken]
  /\ SessionGoto(c, "idle", NoToken)
  /\ UNCHANGED <<token, family, held, lateRetires, ended>>

SessionNext == \E c \in SessionCalls :
  \/ SignIn(c) \/ FindForRefresh(c) \/ Mint(c) \/ Retire(c)
  \/ FindForLogout(c) \/ RevokeFamily(c) \/ SessionFail(c)

SessionSpec == SessionInit /\ [][SessionNext]_sessionVars

-----------------------------------------------------------------------------
SessionTypeOK ==
  /\ token \in [Tokens -> {"none", "live", "revoked"}]
  /\ family \in [Tokens -> Tokens \union {NoToken}]
  /\ held \subseteq Tokens
  /\ sessionPc \in [SessionCalls -> {"idle", "mint", "retire", "revokeFamily"}]
  /\ presented \in [SessionCalls -> Tokens \union {NoToken}]
  /\ minted \in [SessionCalls -> Tokens \union {NoToken}]
  /\ lateRetires \in [Tokens -> Nat]
  /\ ended \subseteq Tokens

\* A token that would be accepted and that somebody can present.
Usable(f) == {t \in held : token[t] = "live" /\ family[t] = f}

\* Rotation keeps one usable token in a family: every further one was handed out
\* by a refresh whose last UPDATE found its token already revoked (a result the
\* code does not look at), whatever else is retried, lost or cut short.
OneUsableToken == \A f \in Tokens : Cardinality(Usable(f)) <= 1 + lateRetires[f]

\* A session that was ended, by logout or by a re-use, never has a live token
\* again: only a refresh that had passed its check and had still to insert the
\* successor when the family was revoked can bring it back.
EndedStaysEnded == \A t \in Issued : family[t] \in ended => token[t] = "revoked"
=============================================================================
