----------------------------- MODULE NesSession -----------------------------
(***************************************************************************)
(* What the debug link promises: the commands of the PC take effect one    *)
(* after the other, in the order in which they were issued, each at once,  *)
(* and a query returns exactly what the machine held at that moment.       *)
(* Between commands the processor runs when it is not halted.              *)
(*                                                                         *)
(* A link that damaged or lost a byte promises nothing any more.           *)
(***************************************************************************)
EXTENDS Packets

CONSTANT Bytes  \* values the running program stores

VARIABLES
  machine,  \* the machine
  pending,  \* commands issued and not carried out
  answer,   \* bytes answered and not taken
  taken,    \* the last bytes taken
  broken    \* the line failed

sessionVars == <<machine, pending, answer, taken, broken>>

SessionInit ==
  /\ machine = Reset /\ pending = <<>> /\ answer = <<>> /\ taken = <<>>
  /\ broken = FALSE

Issue ==
  /\ Len(pending') = Len(pending) + 1 /\ IsPrefix(pending, pending')
  /\ UNCHANGED <<machine, answer, taken>>

Execute ==
  /\ pending # <<>>
  /\ machine' = Effect(Head(pending), machine)
  /\ answer' = answer \o Answer(Head(pending), machine)
  /\ pending' = Tail(pending)
  /\ UNCHANGED taken

Take ==
  /\ taken' = answer /\ answer' = <<>>
  /\ UNCHANGED <<machine, pending>>

Program ==
  /\ ~machine.halted
  /\ \/ machine' = [machine EXCEPT !.halted = TRUE]
     \/ \E v \in Bytes : machine' = [machine EXCEPT !.mem = Put(@, 0, <<v>>)]
  /\ UNCHANGED <<pending, answer, taken>>

Fails == broken'

SessionNext == \/ (Issue \/ Execute \/ Take \/ Program) /\ broken' = broken
               \/ Fails
SessionSpec == SessionInit /\ [][SessionNext]_sessionVars
=============================================================================
