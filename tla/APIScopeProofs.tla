----------------------------- MODULE APIScopeProofs ----------------------------
(* What follows from the promise of a cloud client alone.                   *)
EXTENDS APIScope, TLAPS

\* The promise is kept for every behaviour: when no request waits, the running one works
\* for the scope that is asked now, and when none runs either, an API that is to be
\* private is private (SetDefaultAPIPrivate and SetDefaultAPIPublic of cloudclient.go).
THEOREM SettledAlways == Spec => [](TypeOK /\ Settled)
<1>1. Init => TypeOK /\ Settled
  BY DEF Init, TypeOK, Settled, Scopes
<1>2. TypeOK /\ Settled /\ [Next]_vars => TypeOK' /\ Settled'
  <2> SUFFICES ASSUME TypeOK, Settled, [Next]_vars
               PROVE  TypeOK' /\ Settled'
    OBVIOUS
  <2> USE DEF TypeOK, Settled, Scopes, Private
  <2>1. CASE Ask
    BY <2>1 DEF Ask
  <2>2. CASE Wake
    BY <2>2 DEF Wake
  <2>3. CASE Start
    BY <2>3 DEF Start
  <2>4. CASE Skip
    BY <2>4 DEF Skip
  <2>5. CASE GiveUp
    BY <2>5 DEF GiveUp
  <2>6. CASE Expose
    BY <2>6 DEF Expose
  <2>7. CASE Hide
    BY <2>7 DEF Hide
  <2>8. CASE PointOut
    BY <2>8 DEF PointOut
  <2>9. CASE PointIn
    BY <2>9 DEF PointIn
  <2>10. CASE Finish
    BY <2>10 DEF Finish
  <2>11. CASE Fail
    BY <2>11 DEF Fail
  <2>12. CASE UNCHANGED vars
    BY <2>12 DEF vars
  <2> QED
    BY <2>1, <2>2, <2>3, <2>4, <2>5, <2>6, <2>7, <2>8, <2>9, <2>10, <2>11, <2>12 DEF Next
<1> QED
  BY <1>1, <1>2, PTL DEF Spec
================================================================================
