------------------------------ MODULE Execution ------------------------------
(***************************************************************************)
(* What executing approved decisions promises, without transactions,       *)
(* idempotency keys, retries or crashes.  An authorised decision settles   *)
(* at most once and for good: OBSERVED when its effect entered demo_kv,    *)
(* ERROR when the effect was proven not to have happened.  The effects of  *)
(* one effect key form a chain of consecutive versions.                    *)
(* Module Executor is shown to implement this one.                         *)
(***************************************************************************)
EXTENDS Naturals

CONSTANTS Decision,     \* decision ids
          EffectKey,    \* demo_kv effect keys
          Target        \* the effect key each decision's proposal writes

VARIABLES authorized,   \* decisions that carry executable authority
          outcome,      \* how each decision settled
          version       \* the version its effect took; 0 without an effect

avars == <<authorized, outcome, version>>

OnKey(k) == {d \in Decision : Target[d] = k}

\* The one version that extends the chain of effect key k
NextVersions(k) ==
  {n \in {1} \cup {version[e] + 1 : e \in OnKey(k)} :
     \A e \in OnKey(k) : version[e] < n}

AInit ==
  /\ authorized = {}
  /\ outcome = [d \in Decision |-> "NONE"]
  /\ version = [d \in Decision |-> 0]

\* The reviewer's approval reaches the store.
Authorize(d) ==
  /\ authorized' = authorized \cup {d}
  /\ UNCHANGED <<outcome, version>>

\* The effect, its attempt and its OBSERVED receipt appear in one step.
Apply(d) ==
  /\ d \in authorized
  /\ outcome[d] = "NONE"
  /\ outcome' = [outcome EXCEPT ![d] = "OBSERVED"]
  /\ \E n \in NextVersions(Target[d]) : version' = [version EXCEPT ![d] = n]
  /\ UNCHANGED authorized

\* The decision is closed without an effect.
Reject(d) ==
  /\ d \in authorized
  /\ outcome[d] = "NONE"
  /\ outcome' = [outcome EXCEPT ![d] = "ERROR"]
  /\ UNCHANGED <<authorized, version>>

ANext == \E d \in Decision : Authorize(d) \/ Apply(d) \/ Reject(d)

ASpec == AInit /\ [][ANext]_avars
=============================================================================
