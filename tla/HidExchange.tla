---------------------------- MODULE HidExchange ----------------------------
(***************************************************************************)
(* One packet at a time to the EC and back (src/src/backend_hidraw.rs):    *)
(* the feature report is written, the reply is read 1.5 ms later and       *)
(* validated (src/src/protocol.rs), and the report is written again once   *)
(* after BUSY and once after a malformed or stale reply.                   *)
(*                                                                         *)
(* The EC works at its own pace: it holds the last report written to it    *)
(* and one reply, which the host reads whenever it likes.                  *)
(***************************************************************************)
EXTENDS EcProtocol

CONSTANTS
  Jobs,          (* the packets of the operations a daemon has applied     *)
  InitialEcs,    (* EC states another program may have left behind         *)
  KeepsOldReply, (* a new report leaves the previous reply in place until
                    the EC has answered, instead of a NEW frame            *)
  Noise          (* replies the EC never gave                              *)

\* Packet::matches_response: the class and id a reply echoes; the zone is an
\* argument and not part of them.
Command(r) ==
  CASE r[1] = "power" -> <<13, 2>>
    [] r[1] = "rpm"   -> <<13, 1>>
    [] r[1] = "boost" -> <<13, 7>>
    [] r = Bho        -> <<7, 18>>
    [] r = Brightness -> <<3, 3>>
    [] r = Matrix     -> <<3, 10>>
    [] r = LogoState  -> <<3, 0>>
    [] r = LogoEffect -> <<3, 2>>

Commands == {Command(r) : r \in Registers}
Statuses == {"new", "busy", "success", "failure", "timeout", "not_supported"}

\* A reply: whether it has the form of a report, its status byte, whether it
\* echoes the transaction id and the data size, the command it echoes, and
\* whether its checksum fits one of the two windows.
Replies == [form : {"whole", "broken"}, status : Statuses \cup {"unknown"},
            echo : {"ours", "other"}, command : Commands, checksum : {"fits", "neither"}]

Reply(status, p) == [form |-> "whole", status |-> status, echo |-> "ours",
                     command |-> Command(p.reg), checksum |-> "fits"]

\* Whatever garbles a reply, and whoever else talks to the EC, the result is
\* not a whole reply to us with a checksum that fits.
NoiseAssumed == {b \in Replies : b.form = "broken" \/ b.echo = "other" \/ b.checksum = "neither"}

\* The packets of an operation: at most four, each for a register of its own.
IsJob(j) ==
  /\ Len(j) \in 1..4
  /\ \A i \in 1..Len(j) : IsWrite(j[i])
  /\ \A i, k \in 1..Len(j) : j[i].reg = j[k].reg => i = k

ASSUME LinkAssumption ==
  /\ \A j \in Jobs : IsJob(j)
  /\ \A e \in InitialEcs : IsEcState(e)
  /\ KeepsOldReply \in BOOLEAN
  /\ Noise \subseteq NoiseAssumed

VARIABLES
  (* the host *)
  job, sent,        (* packets of the operation; how many went through     *)
  step,             (* "write" or "read" comes next                        *)
  retried,          (* busy_retried, malformed_retried: causes retried     *)
  (* the EC *)
  regs,             (* its registers                                       *)
  inbox,            (* the report it has not dealt with                    *)
  reply,            (* the reply it holds                                  *)
  (* history: not in the code *)
  before,           (* regs and inbox when the exchange began              *)
  busy_seen,        (* BUSY replies of the exchange                        *)
  malformed_seen,   (* malformed or stale replies of the exchange          *)
  ended             (* how the last exchange ended                         *)

host    == <<job, sent, step, retried>>
device  == <<regs, inbox, reply>>
history == <<before, busy_seen, malformed_seen, ended>>
vars    == <<host, device, history>>

Packet   == job[sent + 1]
Sending  == sent < Len(job)
\* Between the first report of a packet and its outcome.
Exchange == step = "read" \/ retried # {}

Endings == {"acknowledged", "refused", "gave up", "i/o error", "process died"}

TypeOK ==
  /\ job \in Jobs \cup {<<>>} /\ sent \in 0..Len(job)
  /\ step \in {"write", "read"}
  /\ retried \subseteq {"busy", "malformed"}
  /\ IsEcState(regs)
  /\ \A p, q \in inbox : IsWrite(p) /\ p = q
  /\ reply \in Replies
  /\ IsEcState(before.regs)
  /\ \A p, q \in before.inbox : IsWrite(p) /\ p = q
  /\ busy_seen \in 0..2 /\ malformed_seen \in 0..2
  /\ ended \in Endings

Init ==
  /\ job = <<>> /\ sent = 0 /\ step = "write" /\ retried = {}
  /\ regs \in InitialEcs /\ inbox = None
  /\ reply \in {Reply("success", Write(Bho, 0))}
  /\ before = [regs |-> regs, inbox |-> None]
  /\ busy_seen = 0 /\ malformed_seen = 0 /\ ended = "acknowledged"

-----------------------------------------------------------------------------
(* The host: HidrawBackend::apply and exchange *)

Apply ==
  /\ job = <<>>
  /\ job' \in Jobs
  /\ UNCHANGED <<sent, step, retried, device, history>>

\* The loop over the packets is through.
Applied ==
  /\ job # <<>> /\ ~Sending
  /\ job' = <<>> /\ sent' = 0
  /\ UNCHANGED <<step, retried, device, history>>

\* The exchange is over, and the operation with it when it failed.
EndExchange(how) ==
  /\ step' = "write" /\ retried' = {}
  /\ ended' = how
  /\ IF how = "acknowledged" THEN sent' = sent + 1 /\ UNCHANGED job
                             ELSE sent' = 0 /\ job' = <<>>

\* send_feature_report: the report replaces one the EC has not dealt with.
WriteReport ==
  /\ Sending /\ step = "write" /\ step' = "read"
  /\ inbox' = Some(Packet)
  /\ reply' = IF KeepsOldReply THEN reply ELSE Reply("new", Packet)
  /\ IF Exchange THEN UNCHANGED <<before, busy_seen, malformed_seen>>
                 ELSE /\ before' = [regs |-> regs, inbox |-> inbox]
                      /\ busy_seen' = 0 /\ malformed_seen' = 0
  /\ UNCHANGED <<job, sent, retried, regs, ended>>

\* An error of the write may come after the EC has the report.
WriteFails ==
  /\ Sending /\ step = "write"
  /\ inbox' \in {inbox, Some(Packet)}
  /\ EndExchange("i/o error")
  /\ UNCHANGED <<regs, reply, before, busy_seen, malformed_seen>>

ReadFails ==
  /\ step = "read"
  /\ EndExchange("i/o error")
  /\ UNCHANGED <<device, before, busy_seen, malformed_seen>>

\* A plausible slip: the checksum not compared.
validate_without_checksum(p, b) ==
  CASE b.form = "broken" \/ b.status = "unknown" -> "malformed"
    [] b.status = "busy"                         -> "busy"
    [] b.status = "new"                          -> "malformed"
    [] b.status # "success"                      -> "verdict"
    [] b.echo = "ours" /\ b.command = Command(p.reg) -> "success"
    [] OTHER                                     -> "malformed"

\* validate_response and is_retryable: frame, status, then the echoes and the
\* checksum of a successful frame.
validate_response(p, b) ==
  CASE b.form = "broken" \/ b.status = "unknown" -> "malformed"
    [] b.form = "whole" /\ b.status = "busy"     -> "busy"
    [] b.form = "whole" /\ b.status = "new"      -> "malformed"
    [] b.form = "whole" /\ b.status \in {"failure", "timeout", "not_supported"} -> "verdict"
    [] b.form = "whole" /\ b.status = "success"  ->
         IF b.echo = "ours" /\ b.command = Command(p.reg) /\ b.checksum = "fits"
           THEN "success" ELSE "malformed"

Count(cause) ==
  /\ busy_seen' = IF cause = "busy" THEN busy_seen + 1 ELSE busy_seen
  /\ malformed_seen' = IF cause = "malformed" THEN malformed_seen + 1 ELSE malformed_seen

\* Plausible slips: one retry for both causes, flags declared inside the loop,
\* and a retry that is not noted.
RetrySharedBudget(cause) ==
  /\ IF retried # {}
       THEN EndExchange("gave up")
       ELSE step' = "write" /\ retried' = retried \cup {cause} /\ UNCHANGED <<job, sent, ended>>
  /\ Count(cause)
  /\ UNCHANGED <<device, before>>

RetryFlagsPerPass(cause) ==
  /\ step' = "write" /\ retried' = {cause} /\ UNCHANGED <<job, sent, ended>>
  /\ Count(cause)
  /\ UNCHANGED <<device, before>>

RetryForEver(cause) ==
  /\ IF cause = "busy" /\ cause \in retried
       THEN EndExchange("gave up")
       ELSE step' = "write" /\ retried' = retried \cup {cause} /\ UNCHANGED <<job, sent, ended>>
  /\ UNCHANGED <<busy_seen, malformed_seen>>
  /\ UNCHANGED <<device, before>>

\* One retry for each cause.
Retry(cause) ==
  /\ IF cause \in retried
       THEN EndExchange("gave up")
       ELSE step' = "write" /\ retried' = retried \cup {cause} /\ UNCHANGED <<job, sent, ended>>
  /\ Count(cause)
  /\ UNCHANGED <<device, before>>

ReadReply ==
  /\ step = "read"
  /\ \E b \in {reply} \cup Noise :
       LET verdict == validate_response(Packet, b)
       IN  \/ verdict \in {"busy", "malformed"} /\ Retry(verdict)
           \/ /\ verdict \in {"success", "verdict"}
              /\ EndExchange(IF verdict = "success" THEN "acknowledged" ELSE "refused")
              /\ UNCHANGED <<device, before, busy_seen, malformed_seen>>

ProcessDies ==
  /\ job # <<>>
  /\ EndExchange("process died")
  /\ UNCHANGED <<device, before, busy_seen, malformed_seen>>

-----------------------------------------------------------------------------
(* The EC *)

EcExecutes ==
  /\ \E p \in inbox : regs' = EcAfter(regs, p) /\ reply' = Reply("success", p)
  /\ inbox' = None
  /\ UNCHANGED <<host, history>>

EcRefuses ==
  /\ \E p \in inbox, status \in {"failure", "timeout", "not_supported"} :
       reply' = Reply(status, p)
  /\ inbox' = None
  /\ UNCHANGED <<regs, host, history>>

\* Busy: the report is kept for later or lost.
EcBusy ==
  /\ \E p \in inbox : reply' = Reply("busy", p)
  /\ inbox' \in {inbox, None}
  /\ UNCHANGED <<regs, host, history>>

-----------------------------------------------------------------------------
HostStep == Applied \/ WriteReport \/ WriteFails \/ ReadReply \/ ReadFails

Next == HostStep \/ Apply \/ ProcessDies \/ EcExecutes \/ EcRefuses \/ EcBusy

Spec == Init /\ [][Next]_vars

\* The host goes on: each of its calls returns or times out.
LiveSpec == Spec /\ WF_vars(HostStep)

-----------------------------------------------------------------------------
(* An exchange is one step of the link: until it ends the link is as it was *)

Link == INSTANCE EcLink WITH
          ec   <- IF Exchange THEN before.regs ELSE regs,
          late <- IF Exchange THEN before.inbox ELSE inbox

\* backend_hidraw.rs:85-86, through every interleaving of host and EC: an
\* acknowledged packet is in effect and no copy of it is still to be executed.
ImplementsLink == Link!Spec

\* packaging/razer-control-secureblue.spec:81-82, backend_hidraw.rs:85-86: what
\* the host counts as written is in the EC, and stays there while the rest of
\* the operation is sent.
AcknowledgedMeansExecuted ==
  \A i \in 1..sent : regs[job[i].reg] = job[i].val

\* backend_hidraw.rs:82-86: an exchange survives one BUSY and one malformed or
\* stale reply, in any order, and writes its report three times at most.
TransientsSurvive ==
  /\ ended = "gave up" /\ ~Exchange => busy_seen = 2 \/ malformed_seen = 2
  /\ busy_seen + malformed_seen <= 3
  /\ Exchange => busy_seen <= 1 /\ malformed_seen <= 1

\* backend_hidraw.rs:91-124: the retry loop ends, whatever the link does, and
\* with it the call the daemon's only thread waits in.
OperationEnds == job # <<>> ~> job = <<>>
=============================================================================
