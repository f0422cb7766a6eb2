------------------------------ MODULE PairingList ------------------------------
(***************************************************************************)
(* What the pairing list promises: a controller has no role, is a user or  *)
(* is an admin.  The first controller becomes an admin by Pair Setup; from *)
(* then on roles change one at a time and only while an admin acts, that   *)
(* is, has a session; nobody acts who has no role; when the last admin is  *)
(* gone nobody has a role, whatever is cut off half way.                   *)
(***************************************************************************)
EXTENDS Naturals, FiniteSets

CONSTANTS Controllers, MaxPairings

VARIABLES
    role,      \* the role of each controller
    acting,    \* the controllers for whom a session is open
    on         \* the accessory server runs

Roles == {"none", "user", "admin"}
Nothing == [c \in Controllers |-> "none"]

HasAdmin(r) == \E c \in Controllers : r[c] = "admin"
Settled(r) == IF HasAdmin(r) THEN r ELSE Nothing

Paired(r) == {c \in Controllers : r[c] # "none"}

Init == role = Nothing /\ acting = {} /\ on = FALSE

\* Sessions open and close in any step.
Sessions == acting' \in SUBSET (IF on' THEN Paired(role') ELSE {})

Switch == on' \in BOOLEAN /\ UNCHANGED role

PairFirst(c) ==
    /\ on
    /\ role = Nothing
    /\ role' = [Nothing EXCEPT ![c] = "admin"]
    /\ UNCHANGED on

\* The accessory may go down in the same step.
ChangeRole(by, c, r) ==
    /\ role[by] = "admin"
    /\ role' = Settled([role EXCEPT ![c] = r])
    /\ role[c] = "none" /\ r # "none" => Cardinality(Paired(role)) < MaxPairings
    /\ on' \in BOOLEAN

\* The application clears the list of a stopped accessory, or some of it.
Clear(kept) ==
    /\ ~on
    /\ role' = Settled([c \in Controllers |-> IF c \in kept THEN role[c] ELSE "none"])
    /\ UNCHANGED on

Next ==
    /\ Sessions
    /\ \/ Switch
       \/ \E c \in Controllers : PairFirst(c)
       \/ \E by \in acting, c \in Controllers, r \in Roles : ChangeRole(by, c, r)
       \/ \E kept \in SUBSET Controllers : Clear(kept)

Spec == Init /\ [][Next]_<<role, acting, on>>
===============================================================================
