--------------------------- MODULE MCRunAdmission ---------------------------
(***************************************************************************)
(* Small instances of RunAdmission: two runs, one of them with two         *)
(* intentions, and one body that gives the first run another nickname.     *)
(***************************************************************************)
EXTENDS RunAdmission, TLC

Body(r, nickname, prompt) == [run |-> r, nickname |-> nickname, prompt |-> prompt]

\* One run, started with one intention.
OneIntention == {Body("r1", "n1", "x")}

\* One run and two intentions of the same name.
TwoIntentions == {Body("r1", "n1", "x"), Body("r1", "n1", "y")}

\* Two runs, the first with two intentions.
TwoRuns == TwoIntentions \cup {Body("r2", "n2", "x")}

\* The handlers differ in nothing.
HandlerSymmetry == Permutations(Requests)

\* What the broker's properties and every step depend on: all but the history.
BrokerView == <<run, broker, stripe, gate, request, clock, mine>>

=============================================================================
