------------------------------- MODULE Script -------------------------------
(***************************************************************************)
(* run_script_commands of src/tools/hidctl/src/script.rs, and of the Web   *)
(* UI's script.js, which does the same: a script is cut at its STOPs, what *)
(* lies between them is sent as one batch, and the first error sends       *)
(* STOP_ALL and ends the run.                                              *)
(*                                                                         *)
(* What send makes of one packet is what HidClient shows of send_command:  *)
(* it may fail before the packet is handled, its answer may be lost, in    *)
(* every attempt or in some, and a repeated packet is answered from the    *)
(* cache unless the lease has expired in between.  Then it is handled once *)
(* more.  The firmware is its batch, the job that executes one, and the    *)
(* held key.                                                               *)
(***************************************************************************)
EXTENDS Naturals, Sequences

CONSTANTS
  ScriptLimit,      \* bound: the longest script
  BatchMaxCommands, \* BATCH_MAX_COMMANDS, 32
  ExpiryLimit,      \* bound: how often the lease expires in a run
  Fault,            \* what may go wrong: "Timeout", "Hid", "Lease"
  None

\* One key is enough: text is refused while it is held.
Batched == {"KeyDown", "KeyUp", "TypeAscii"}
ScriptCommand == Batched \cup {"StopAll"}

Scripts == UNION {[1 .. n -> ScriptCommand] : n \in 0 .. ScriptLimit}

\* A packet has its place in the script: BATCH_BEGIN that of the first command after
\* it, BATCH_END that of the last before it.
Packet == [type: ScriptCommand \cup {"BatchBegin", "BatchEnd"}, place: 1 .. ScriptLimit]

\* BatchCollector: what was collected, and whether the key is down after it.
Batch == [packets: Seq(Packet), down: BOOLEAN]

ASSUME ScriptAssumption ==
  /\ {ScriptLimit, BatchMaxCommands} \subseteq Nat \ {0}
  /\ ExpiryLimit \in Nat
  /\ Fault \subseteq {"Timeout", "Hid", "Lease"}
  /\ None \notin Packet /\ None \notin Batch /\ None \notin Seq(Packet)

VARIABLES
  script,   \* what the user wrote
  packet,   \* of the plan, the one that is being sent, or None at the end
  runner,   \* where run_script_commands is
  batch,    \* the firmware's collecting batch with its shadow state, or None
  job,      \* what is left of the executing batch, or None
  held,     \* the key is down
  executed, \* history: places in the script, in the order of execution
  whole,    \* history: where the batches that BATCH_END handed over began and ended
  expiries  \* history: how often the lease expired

scriptVars == <<script, packet, runner, batch, job, held, executed, whole, expiries>>

ScriptTypeOK ==
  /\ script \in Scripts
  /\ packet \in Packet \cup {None}
  /\ runner \in {"Sending", "Awaiting", "Unanswered", "Stopping", "Ok", "Error"}
  /\ batch # None => batch \in Batch /\ Len(batch.packets) <= BatchMaxCommands
  /\ job # None => job \in Seq(Packet) /\ Len(job) <= BatchMaxCommands
  /\ batch = None \/ job = None
  /\ held \in BOOLEAN
  /\ executed \in Seq(1 .. ScriptLimit)
  /\ whole \subseteq (1 .. ScriptLimit) \X (1 .. ScriptLimit)
  /\ expiries \in 0 .. ExpiryLimit

-----------------------------------------------------------------------------
(* The plan, one packet after another.                                     *)

\* Mutant: a STOP does not begin a new batch.
BeginsScript(i) == i = 1

\* A part of the script is what lies between two STOPs.
BeginsPart(i) == i = 1 \/ script[i - 1] = "StopAll"
EndsPart(i) == i = Len(script) \/ script[i + 1] = "StopAll"

\* plan_script_commands: the first packet for command i and those after it.
PlannedAt(i) ==
  IF i > Len(script) THEN None
  ELSE [type |-> IF script[i] # "StopAll" /\ BeginsPart(i) THEN "BatchBegin" ELSE script[i],
        place |-> i]

\* append_script_segment: the packet after this one.
Following(p) ==
  IF p.type = "BatchBegin" THEN [p EXCEPT !.type = script[p.place]]
  ELSE IF p.type \in Batched /\ EndsPart(p.place) THEN [p EXCEPT !.type = "BatchEnd"]
  ELSE PlannedAt(p.place + 1)

ScriptInit ==
  /\ script \in Scripts
  /\ packet = PlannedAt(1) /\ runner = "Sending"
  /\ batch = None /\ job = None /\ held = FALSE
  /\ executed = <<>> /\ whole = {} /\ expiries = 0

-----------------------------------------------------------------------------
(* The runner.                                                             *)

\* send returned an error: STOP_ALL, then the error.
GiveUp == runner' = "Stopping" /\ UNCHANGED packet

\* The packet is done.  Its answer arrives, or is lost.
Proceed ==
  \/ packet' = Following(packet) /\ runner' = "Sending"
  \/ "Timeout" \in Fault /\ runner' = "Unanswered" /\ UNCHANGED packet

\* Mutant: a repeated packet is handled as if it were new.
RetriedAfresh ==
  /\ runner = "Unanswered"
  /\ runner' = "Sending"
  /\ UNCHANGED <<script, packet, batch, job, held, executed, whole, expiries>>

\* The packet is sent again, and answered from the cache.
Retried ==
  /\ runner = "Unanswered"
  /\ packet' = Following(packet) /\ runner' = "Sending"
  /\ UNCHANGED <<script, batch, job, held, executed, whole, expiries>>

\* Or send fails: every answer was lost, or the packet was never handled, as it could not
\* be written or was refused with BUSY in every attempt.
SendFails ==
  /\ "Timeout" \in Fault
  /\ runner = "Unanswered" \/ (runner = "Sending" /\ packet # None)
  /\ GiveUp
  /\ UNCHANGED <<script, batch, job, held, executed, whole, expiries>>

Finish ==
  /\ runner = "Sending" /\ packet = None
  /\ runner' = "Ok"
  /\ UNCHANGED <<script, packet, batch, job, held, executed, whole, expiries>>

IsSending(types) == runner = "Sending" /\ packet # None /\ packet.type \in types

-----------------------------------------------------------------------------
(* The firmware.                                                           *)

HeldAfter(command, down) ==
  CASE command.type = "KeyDown" -> TRUE
    [] command.type = "KeyUp" -> FALSE
    [] OTHER -> down

\* BatchCollector::begin: the shadow is what is held now.
BatchBegin ==
  /\ IsSending({"BatchBegin"}) /\ batch = None /\ job = None
  /\ batch' = [packets |-> <<>>, down |-> held]
  /\ Proceed
  /\ UNCHANGED <<script, job, held, executed, whole, expiries>>

\* BatchCollector::push accepts the command.
IsAccepted ==
  /\ Len(batch.packets) < BatchMaxCommands
  /\ packet.type = "TypeAscii" => ~batch.down

Collect ==
  /\ IsSending(Batched) /\ batch # None /\ IsAccepted
  /\ batch' = [packets |-> Append(batch.packets, packet),
               down |-> HeldAfter(packet, batch.down)]
  /\ Proceed
  /\ UNCHANGED <<script, job, held, executed, whole, expiries>>

\* NACK: the batch is dropped and all input released.
CollectError ==
  /\ IsSending(Batched) /\ batch # None /\ ~IsAccepted
  /\ batch' = None /\ held' = FALSE
  /\ GiveUp
  /\ UNCHANGED <<script, job, executed, whole, expiries>>

\* Without a batch a command is executed at once: the batch it was meant for was
\* dropped when the lease expired.
Single ==
  /\ IsSending(Batched) /\ batch = None /\ job = None
  /\ \/ /\ packet.type = "TypeAscii" /\ held
        /\ held' = FALSE
        /\ GiveUp
        /\ UNCHANGED executed
     \/ /\ ~(packet.type = "TypeAscii" /\ held)
        /\ held' = HeldAfter(packet, held)
        /\ executed' = Append(executed, packet.place)
        /\ Proceed
  /\ UNCHANGED <<script, batch, job, whole, expiries>>

BatchEnd ==
  /\ IsSending({"BatchEnd"})
  /\ IF batch = None
       THEN GiveUp /\ UNCHANGED <<job, batch, whole>>
       ELSE LET packets == batch.packets
            IN  /\ job' = packets /\ batch' = None
                /\ whole' = whole \cup {<<packets[1].place, packets[Len(packets)].place>>}
                /\ runner' = "Awaiting" /\ UNCHANGED packet
  /\ UNCHANGED <<script, held, executed, expiries>>

ExecuteNext ==
  /\ job # None /\ job # <<>>
  /\ job' = Tail(job)
  /\ held' = HeldAfter(Head(job), held)
  /\ executed' = Append(executed, Head(job).place)
  /\ UNCHANGED <<script, packet, runner, batch, whole, expiries>>

BatchDone ==
  /\ job = <<>>
  /\ job' = None
  /\ IF runner = "Awaiting" THEN Proceed ELSE UNCHANGED <<packet, runner>>
  /\ UNCHANGED <<script, batch, held, executed, whole, expiries>>

\* Mutant: the batch is acknowledged all the same.
HidFailsUnnoticed ==
  /\ "Hid" \in Fault /\ job # None /\ job # <<>>
  /\ job' = None /\ held' = FALSE
  /\ IF runner = "Awaiting" THEN Proceed ELSE UNCHANGED <<packet, runner>>
  /\ UNCHANGED <<script, batch, executed, whole, expiries>>

\* A report fails: the rest is discarded and all input released.
HidFails ==
  /\ "Hid" \in Fault /\ job # None /\ job # <<>>
  /\ job' = None /\ held' = FALSE
  /\ IF runner = "Awaiting" THEN GiveUp ELSE UNCHANGED <<packet, runner>>
  /\ UNCHANGED <<script, batch, executed, whole, expiries>>

\* The client's deadline for BATCH_END passes while the batch executes.
TimesOut ==
  /\ "Timeout" \in Fault /\ runner = "Awaiting"
  /\ GiveUp
  /\ UNCHANGED <<script, batch, job, held, executed, whole, expiries>>

\* The lease expires because hidctl was not scheduled.  A BATCH_END whose answer is
\* awaited finds no batch when it is sent again; any other packet whose answer is missing
\* is handled once more.
LeaseExpires ==
  /\ "Lease" \in Fault /\ (batch # None \/ job # None \/ held)
  /\ expiries < ExpiryLimit
  /\ batch' = None /\ job' = None /\ held' = FALSE
  /\ CASE runner = "Awaiting" -> GiveUp
       [] runner = "Unanswered" -> runner' = "Sending" /\ UNCHANGED packet
       [] OTHER -> UNCHANGED <<packet, runner>>
  /\ expiries' = expiries + 1
  /\ UNCHANGED <<script, executed, whole>>

ReleaseAll == batch' = None /\ job' = None /\ held' = FALSE

StopAll ==
  /\ IsSending({"StopAll"})
  /\ ReleaseAll
  /\ Proceed
  /\ UNCHANGED <<script, executed, whole, expiries>>

\* The runner's own STOP_ALL, whose result it ignores: when that was not sent, was refused
\* or comes too late, the script has ended, and what it holds, collects or executes goes
\* on until the session ends.
StopAfterError ==
  /\ runner = "Stopping"
  /\ \/ ReleaseAll
     \/ "Timeout" \in Fault /\ UNCHANGED <<batch, job, held>>
  /\ runner' = "Error"
  /\ UNCHANGED <<script, packet, executed, whole, expiries>>

\* Then hidctl ends, which drops its client, or the STOP_ALL comes late.
SessionEnds ==
  /\ runner \in {"Ok", "Error"}
  /\ ReleaseAll
  /\ UNCHANGED <<script, packet, runner, executed, whole, expiries>>

ScriptNext ==
  \/ Finish
  \/ Retried
  \/ SendFails
  \/ BatchBegin
  \/ Collect
  \/ CollectError
  \/ Single
  \/ BatchEnd
  \/ ExecuteNext
  \/ BatchDone
  \/ HidFails
  \/ TimesOut
  \/ LeaseExpires
  \/ StopAll
  \/ StopAfterError
  \/ SessionEnds

ScriptSpec == ScriptInit /\ [][ScriptNext]_scriptVars

-----------------------------------------------------------------------------
\* Every command up to place n but the STOPs was executed, once and in order.
IsPlayed(n) ==
  /\ \A k \in 1 .. Len(executed) - 1 : executed[k] < executed[k + 1]
  /\ {executed[k] : k \in DOMAIN executed} = {i \in 1 .. n : script[i] # "StopAll"}

\* A script that ran without error was executed whole and in its order, whatever
\* was lost, refused or expired on the way.
OkMeansPlayed == runner = "Ok" => IsPlayed(Len(script))

\* However a run ends, and while what it left behind goes on, what was executed of the
\* script is a beginning of it: nothing twice, nothing left out before what came later.
\* (Not when the lease has expired: Single, and a packet that is handled once more.)
PlayedInOrder ==
  expiries = 0 => \E n \in 0 .. Len(script) : IsPlayed(n)

\* With the bounds of batch, job and plan.
ScriptInv == ScriptTypeOK /\ PlayedInOrder

\* What lies between two STOPs is accepted whole before any of it is executed: a
\* command beyond the batch's capacity, or text with a key held, is found out when
\* nothing of its part of the script has had an effect.  (Not when the lease has
\* expired: Single.)
AcceptedWhole ==
  expiries = 0 =>
    \A k \in DOMAIN executed :
      \E b \in whole : /\ executed[k] \in b[1] .. b[2]
                       /\ \A i \in b[1] .. b[2] : script[i] # "StopAll"
                       /\ b[1] = 1 \/ script[b[1] - 1] = "StopAll"
                       /\ b[2] = Len(script) \/ script[b[2] + 1] = "StopAll"
=============================================================================
