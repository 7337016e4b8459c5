--------------------------- MODULE TenantRouting ---------------------------
(***************************************************************************)
(* What moving a tenant from the shared database to its own must keep true *)
(* of the router (withTenant): traffic follows tier and database_ref, so   *)
(* the tier may say "silo" only while database_ref names a database that   *)
(* stands, has the schema and has the tenant's rows.                       *)
(***************************************************************************)
EXTENDS Naturals

VARIABLES tier,   \* "pool" or "silo"
          ref,    \* database_ref, 0 for null
          ready   \* databases that could serve the tenant

vars == <<tier, ref, ready>>

Init == tier = "pool" /\ ref = 0 /\ ready = {}

Prepare ==
  /\ \E d \in ready' : ready' = ready \union {d}
  /\ UNCHANGED <<tier, ref>>

\* A database may go, or be named, only while nothing is routed by name.
Discard ==
  /\ tier = "pool"
  /\ \E d \in ready : ready' = ready \ {d}
  /\ UNCHANGED <<tier, ref>>

Repoint ==
  /\ tier = "pool"
  /\ ref' \in Nat
  /\ UNCHANGED <<tier, ready>>

CutOver ==
  /\ tier = "pool"
  /\ ref \in ready
  /\ tier' = "silo"
  /\ UNCHANGED <<ref, ready>>

CutBack ==
  /\ tier = "silo"
  /\ tier' = "pool"
  /\ UNCHANGED <<ref, ready>>

Next == Prepare \/ Discard \/ Repoint \/ CutOver \/ CutBack

Spec == Init /\ [][Next]_vars
=============================================================================
