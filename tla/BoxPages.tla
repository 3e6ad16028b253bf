------------------------------- MODULE BoxPages -------------------------------
(***************************************************************************)
(* The two pages of the box that go on by themselves in somebody's         *)
(* browser: the company access page with its view (CompanyAccess), and the *)
(* enroll page with the box behind it (EnrollPage).                        *)
(*                                                                         *)
(* They are served by two programs and share no state, so a behaviour of   *)
(* this module is one of one page, with the other at rest.                 *)
(***************************************************************************)
EXTENDS CompanyAccess

CONSTANTS
    Timers, Hands, NoAnswer, Lost, MaxChanges, MaxLost      \* EnrollPage

VARIABLES
    part,
    box, hello, resetOn, screen, task, changes, lost, stuck

Enroll == INSTANCE EnrollPage WITH page <- screen, faults <- lost, MaxFaults <- MaxLost

ASSUME PagesAssumption ==
    /\ {Out, Unset} \cap Cats = {}
    /\ Out # Unset
    /\ \A share \in Before : WellFormed(share)
    /\ Timers # {}
    /\ Timers \cap Hands = {}
    /\ {MaxEdits, MaxFaults, MaxChanges, MaxLost} \subseteq Nat

enrollvars == <<box, hello, resetOn, screen, task, changes, lost, stuck>>

PagesInit ==
    /\ part \in {"access", "enroll"}
    /\ Init /\ Enroll!Init
    /\ part # "access" => file = NoFile
    /\ part # "enroll" => ~box.enrolled /\ hello = "ok" /\ resetOn

PagesNext ==
    \/ part = "access" /\ Next /\ UNCHANGED <<part, enrollvars>>
    \/ part = "enroll" /\ Enroll!Next /\ UNCHANGED <<part, vars>>

PagesSpec == PagesInit /\ [][PagesNext]_<<part, vars, enrollvars>>

\* Requests are served and answered, and states of the house keep changing; the
\* client need not do anything.  The enroll page's timer fires, its script goes
\* on, and a person presses one of the two buttons that a countdown that is
\* over offers.
FairSpec ==
    /\ PagesSpec
    /\ WF_vars(part = "access" /\ \E p \in Pages : Saving(p))
    /\ WF_vars(part = "access" /\ \E p \in Pages : Loading(p))
    /\ \A p \in Pages : SF_vars(part = "access" /\ HassChanges(p))
    /\ \A t \in Enroll!Tasks :
           WF_enrollvars(part = "enroll" /\ (Enroll!Serves(t) \/ Enroll!Runs(t)))
    /\ \A t \in Timers : WF_enrollvars(part = "enroll" /\ Enroll!Refreshes(t))
    /\ \A h \in Hands :
           WF_enrollvars(part = "enroll" /\ (Enroll!Retries(h) \/ Enroll!Skips(h)))

-----------------------------------------------------------------------------
\* The properties of the company access page are CompanyAccess's; these are said
\* in EnrollPage, of the enroll page (enroll_ui.py).
CountdownLives == Enroll!CountdownLives
Arrives == part = "enroll" => Enroll!Arrives
=============================================================================
