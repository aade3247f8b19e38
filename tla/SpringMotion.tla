---------------------------- MODULE SpringMotion ----------------------------
(***************************************************************************)
(* The physics timer (main.rs 849-878) and the spring it drives            *)
(* (spring.rs 28-50): the strength bar and the breathing of a live card,   *)
(* which change sides at any moment.  The code's f32 is arithmetic in      *)
(* units of 1/Unit here, rounded down; the error of one is of the order of *)
(* the other's and both far below what the properties tell apart.          *)
(***************************************************************************)
EXTENDS Integers

CONSTANTS Unit,          \* 1.0: 10000, which keeps every product below 2^31
          MaxTurns       \* bound: how often the card changes sides

ASSUME SpringAssumption == Unit \in Nat \ 0..999 /\ MaxTurns \in Nat

VARIABLES
    live,      \* CONNECTED and not in disguise
    turns,     \* the changes so far
    pos, vel,  \* the spring; conn_strength is pos as of the last step
    phase      \* "rest" or "breathing": is pulse_phase other than zero?

springVars == << live, turns, pos, vel, phase >>

\* PREMIUM: stiffness 170; 2 * 0.78 * sqrt(170) is 20.34, in hundredths.
Stiffness == 170
DampingCent == 2034

target == IF live THEN Unit ELSE 0

SpringInit ==
    /\ live = FALSE /\ turns = 0
    /\ pos = 0 /\ vel = 0
    /\ phase = "rest"

\* The label or the disguise changes.
ChangeSides ==
    /\ turns < MaxTurns
    /\ live' = ~live
    /\ turns' = turns + 1
    /\ UNCHANGED << pos, vel, phase >>

\* settled(target, 0.001, 0.01)
Settled ==
    /\ pos - target \in -(Unit \div 1000 - 1)..(Unit \div 1000 - 1)
    /\ vel \in -(Unit \div 100 - 1)..(Unit \div 100 - 1)

\* A spring without its damping (variant of NextVel).
NextVelUndamped == vel - (Stiffness * (pos - target)) \div 60

\* Spring::step for dt = 1/60, mass 1: first the velocity, then the position
\* from the new one.
NextVel == vel + (-100 * Stiffness * (pos - target) - DampingCent * vel) \div 6000

\* A pulse that is never stopped (variant of PhysicsTurn).
PhysicsTurnBreathingOn ==
    /\ \/ Settled /\ UNCHANGED << pos, vel >>
       \/ ~Settled /\ vel' = NextVel /\ pos' = pos + NextVel \div 60
    /\ phase' = IF live THEN "breathing" ELSE phase
    /\ UNCHANGED << live, turns >>

\* One turn of the 16 ms timer.
PhysicsTurn ==
    /\ \/ Settled /\ UNCHANGED << pos, vel >>
       \/ ~Settled /\ vel' = NextVel /\ pos' = pos + NextVel \div 60
    /\ phase' = IF live THEN "breathing" ELSE "rest"
    /\ UNCHANGED << live, turns >>

SpringNext == ChangeSides \/ PhysicsTurn

SpringFairness == WF_springVars(PhysicsTurn)

SpringSpec == SpringInit /\ [][SpringNext]_springVars /\ SpringFairness
-----------------------------------------------------------------------------
\* SAFETY.  "Overshoot never exceeds 10% of travel distance" (spring.rs 10):
\* of the whole travel, and however often and whenever the target turns round
\* in mid-flight, momentum and all.
OvershootsAtMostATenth == 10 * pos <= 11 * Unit /\ -10 * pos <= Unit

\* The inductive invariant behind it (StandaloneProofs): a polygon of positions
\* and velocities that no turn leaves, towards whichever target, rounding
\* included.  The first pair of sides is the property; the others say how much
\* slower than that the spring is, the further out it is.
away == 2 * pos - Unit     \* twice the way from half-way

InPolygon ==
    /\ 5 * away \in -(6 * Unit) .. 6 * Unit
    /\ 25 * away + 2 * vel \in -(30 * Unit) .. 30 * Unit
    /\ 50 * away + 8 * vel \in -(75 * Unit) .. 75 * Unit
    /\ 5 * away + 2 * vel \in -(20 * Unit) .. 20 * Unit

SpringInv ==
    /\ live \in BOOLEAN /\ turns \in 0 .. MaxTurns
    /\ pos \in Int /\ vel \in Int
    /\ phase \in {"rest", "breathing"}
    /\ InPolygon

\* LIVENESS.  Once the target is left alone, on whichever side, the spring
\* settles ("idle springs cost nothing once settled", main.rs 851-852) and the
\* pulse goes with the side it ended on.
SpringSettles == <>[](Settled /\ (phase = "breathing" <=> live))
=============================================================================
