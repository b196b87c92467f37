----------------------------- MODULE MCAccount ------------------------------
(***************************************************************************)
(* The account of a customer, for TLC: its team and its subscription.  The *)
(* plan reaches the team as a limit of seats, which Team changes at will,  *)
(* so a behaviour here follows one of the two: focus says which.           *)
(***************************************************************************)
EXTENDS Team, Billing, TLC

CONSTANTS Areas,     \* what the run looks at: "team", "billing"
          u1, u2, u3, i1, i2, r1, r2, s1, s2, d1, d2

VARIABLE focus

accountVars == <<focus, vars, billingVars>>

MCUsers      == {u1, u2, u3}
MCInvites    == {i1, i2}
MCRequests   == {r1, r2}
MCLimits     == {1, 2}
MCSubs       == {s1, s2}
MCDeliveries == {d1, d2}

\* u1 founded the team, the others are interchangeable; what only the team and only the subscription
\* knows is exchanged together, as a behaviour has but one of them.
Exchange(S) == {p \in Permutations(S) : \A x \in S : p[x] # x}
Symmetry == Exchange({u2, u3}) \union {p @@ q : p \in Exchange(MCInvites), q \in Exchange(MCSubs)}
              \union {p @@ q : p \in Exchange(MCRequests), q \in Exchange(MCDeliveries)}

AccountInit == /\ focus \in Areas
               /\ Init
               /\ focus = "billing" => seats = 1
               /\ BillingInit

OnTeam    == focus = "team" /\ Next /\ UNCHANGED <<focus, billingVars>>
OnBilling == focus = "billing" /\ BillingNext /\ UNCHANGED <<focus, vars>>

AccountNext == OnTeam \/ OnBilling
AccountSpec == AccountInit /\ [][AccountNext]_accountVars
=============================================================================
