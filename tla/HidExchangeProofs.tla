------------------------- MODULE HidExchangeProofs -------------------------
(***************************************************************************)
(* The exchange keeps the promise of EcLink for every list of operations,  *)
(* every EC and every noise on the way, as long as the EC's buffer shows   *)
(* a NEW frame once a report has been written.                             *)
(***************************************************************************)
EXTENDS HidExchange, TLAPS

-----------------------------------------------------------------------------
(* The retries *)

RetryTypes ==
  /\ step \in {"write", "read"}
  /\ retried \subseteq {"busy", "malformed"}
  /\ busy_seen \in {0, 1, 2} /\ malformed_seen \in {0, 1, 2}

\* A cause has been retried when it has been seen once.
Seen(cause, n) ==
  \/ n = 1 /\ cause \in retried
  \/ n = 0 /\ cause \notin retried

RetryInv ==
  /\ RetryTypes
  /\ Exchange => Seen("busy", busy_seen) /\ Seen("malformed", malformed_seen)
  /\ busy_seen \in {0, 1} \/ malformed_seen \in {0, 1}
  /\ ended = "gave up" /\ ~Exchange => busy_seen = 2 \/ malformed_seen = 2

\* The reply of a running exchange that asks for another try.
LEMMA RetryOnce ==
  ASSUME RetryInv, step = "read", NEW cause \in {"busy", "malformed"}, Retry(cause)
  PROVE  RetryInv'
<1> USE DEF RetryInv, RetryTypes, Seen
<1>1. Exchange /\ Seen("busy", busy_seen) /\ Seen("malformed", malformed_seen)
  BY DEF Exchange
<1>2. /\ cause = "busy" => busy_seen' = busy_seen + 1 /\ malformed_seen' = malformed_seen
      /\ cause = "malformed" => malformed_seen' = malformed_seen + 1 /\ busy_seen' = busy_seen
  BY DEF Retry, Count
<1>3. CASE cause \in retried
  <2>1. ended' = "gave up" /\ ~Exchange' /\ step' = "write" /\ retried' = {}
    BY <1>3 DEF Retry, EndExchange, Exchange
  <2>2. \/ busy_seen' = 2 /\ malformed_seen' \in {0, 1}
        \/ malformed_seen' = 2 /\ busy_seen' \in {0, 1}
    BY <1>1, <1>2, <1>3
  <2>3. RetryTypes'
    BY <2>1, <2>2
  <2> HIDE DEF RetryTypes, Seen
  <2> QED BY <2>1, <2>2, <2>3
<1>4. CASE cause \notin retried
  <2>1. Exchange' /\ step' = "write" /\ retried' = retried \cup {cause}
    BY <1>4 DEF Retry, Exchange
  <2>2. CASE cause = "busy"
    BY <1>1, <1>2, <1>4, <2>1, <2>2
  <2>3. CASE cause = "malformed"
    BY <1>1, <1>2, <1>4, <2>1, <2>3
  <2> QED BY <2>2, <2>3
<1> QED BY <1>3, <1>4

LEMMA RetryNext ==
  ASSUME RetryInv, [Next]_vars
  PROVE  RetryInv'
<1> USE DEF RetryInv, RetryTypes, Seen, Exchange, host, device, history
<1>1. CASE WriteReport
  <2>1. /\ step' = "read" /\ UNCHANGED <<retried, ended>>
        /\ \/ Exchange /\ UNCHANGED <<busy_seen, malformed_seen>>
           \/ ~Exchange /\ busy_seen' = 0 /\ malformed_seen' = 0
    BY <1>1 DEF WriteReport
  <2>2. CASE Exchange
    BY <2>1, <2>2
  <2>3. CASE ~Exchange
    <3>1. retried' = {} /\ busy_seen' = 0 /\ malformed_seen' = 0 /\ ended' = ended /\ Exchange'
      BY <2>1, <2>3
    <3>2. Seen("busy", busy_seen)' /\ Seen("malformed", malformed_seen)'
      BY <3>1
    <3>3. RetryTypes'
      BY <2>1, <3>1
    <3> HIDE DEF RetryTypes, Seen, Exchange
    <3> QED BY <3>1, <3>2, <3>3
  <2> QED BY <2>2, <2>3
<1>2. CASE WriteFails \/ ReadFails \/ ProcessDies
  BY <1>2 DEF WriteFails, ReadFails, ProcessDies, EndExchange
<1>3. CASE ReadReply
  <2>1. PICK b \in {reply} \cup Noise :
          LET verdict == validate_response(Packet, b)
          IN  \/ verdict \in {"busy", "malformed"} /\ Retry(verdict)
              \/ /\ verdict \in {"success", "verdict"}
                 /\ EndExchange(IF verdict = "success" THEN "acknowledged" ELSE "refused")
                 /\ UNCHANGED <<device, before, busy_seen, malformed_seen>>
    BY <1>3 DEF ReadReply
  <2>2. step = "read"
    BY <1>3 DEF ReadReply
  <2>3. CASE \E cause \in {"busy", "malformed"} : Retry(cause)
    BY <2>2, <2>3, RetryOnce
  <2>5. CASE \E how \in {"acknowledged", "refused"} : EndExchange(how) /\ UNCHANGED <<busy_seen, malformed_seen>>
    BY <2>2, <2>5 DEF EndExchange
  <2> QED BY <2>1, <2>3, <2>5
<1>4. CASE Apply \/ Applied \/ EcExecutes \/ EcRefuses \/ EcBusy \/ UNCHANGED vars
  BY <1>4 DEF Apply, Applied, EcExecutes, EcRefuses, EcBusy, vars
<1> QED BY <1>1, <1>2, <1>3, <1>4 DEF Next, HostStep

\* No exchange fails for one BUSY and one malformed reply, and none writes its
\* report more than three times.
THEOREM RetriesCorrect == Spec => []TransientsSurvive
<1>1. Init => RetryInv
  BY DEF Init, RetryInv, RetryTypes, Seen, Exchange
<1>2. RetryInv /\ [Next]_vars => RetryInv'
  BY RetryNext
<1>3. RetryInv => TransientsSurvive
  <2> SUFFICES ASSUME RetryInv PROVE TransientsSurvive
    OBVIOUS
  <2>1. busy_seen + malformed_seen <= 3
    <3>1. CASE busy_seen \in {0, 1} /\ malformed_seen \in {0, 1, 2}
      BY <3>1
    <3>2. CASE busy_seen \in {0, 1, 2} /\ malformed_seen \in {0, 1}
      BY <3>2
    <3> QED BY <3>1, <3>2 DEF RetryInv, RetryTypes
  <2>2. Exchange => busy_seen <= 1 /\ malformed_seen <= 1
    BY DEF RetryInv, Seen
  <2> QED BY <2>1, <2>2 DEF RetryInv, TransientsSurvive
<1> QED BY <1>1, <1>2, <1>3, PTL DEF Spec

-----------------------------------------------------------------------------
(* What the EC holds *)

WriteTypes ==
  /\ job \in Jobs \cup {<<>>} /\ sent \in 0..Len(job)
  /\ step \in {"write", "read"}
  /\ IsEcState(regs) /\ IsEcState(before.regs)
  /\ \A p \in inbox : IsWrite(p)
  /\ before = [regs |-> before.regs, inbox |-> before.inbox]

\* During an exchange the EC holds what it held before or what the packet makes
\* of that; a reply that would be accepted is one to this packet.
ExchangeInv ==
  Exchange =>
    /\ Sending
    /\ inbox \in {None, Some(Packet)}
    /\ regs \in {before.regs, EcAfter(before.regs, Packet)}
    /\ validate_response(Packet, reply) = "success" =>
         inbox = None /\ regs = EcAfter(before.regs, Packet)

\* Between the packets of an operation nothing is left to be executed.
ClearInv == ~Exchange /\ sent > 0 => inbox = None

LinkInv == WriteTypes /\ ExchangeInv /\ ClearInv /\ AcknowledgedMeansExecuted

LEMMA JobFacts ==
  ASSUME WriteTypes, Sending
  PROVE  /\ Len(job) \in 1..4 /\ sent + 1 \in 1..Len(job) /\ sent \in Nat
         /\ IsWrite(Packet)
         /\ \A i \in 1..sent : /\ job[i].reg \in Registers
                               /\ job[i].reg # Packet.reg
<1>1. job \in Jobs
  BY DEF WriteTypes, Sending
<1>2. IsJob(job)
  BY <1>1, LinkAssumption
<1>3. Len(job) \in 1..4
  BY <1>2 DEF IsJob
<1>4. /\ sent + 1 \in 1..Len(job) /\ sent \in Nat
      /\ \A i \in 1..sent : i \in 1..Len(job) /\ i # sent + 1
  BY <1>3 DEF WriteTypes, Sending
<1> QED BY <1>2, <1>3, <1>4 DEF IsJob, Packet, IsWrite

LEMMA WriteKeepsEc ==
  ASSUME NEW e, NEW p, IsEcState(e), IsWrite(p)
  PROVE  /\ IsEcState(EcAfter(e, p))
         /\ EcAfter(e, p)[p.reg] = p.val
         /\ \A r \in Registers : r # p.reg => EcAfter(e, p)[r] = e[r]
         /\ EcAfter(EcAfter(e, p), p) = EcAfter(e, p)
<1>1. /\ EcAfter(e, p)[p.reg] = p.val
      /\ \A r \in Registers : r # p.reg => EcAfter(e, p)[r] = e[r]
      /\ EcAfter(e, p) = [r \in Registers |-> EcAfter(e, p)[r]]
  BY DEF IsEcState, IsWrite, EcAfter
<1>2. \A r \in Registers : EcAfter(e, p)[r] \in Values(r)
  BY <1>1 DEF IsEcState, IsWrite
<1>3. EcAfter(EcAfter(e, p), p) = EcAfter(e, p)
  BY DEF IsEcState, IsWrite, EcAfter
<1> QED BY <1>1, <1>2, <1>3 DEF IsEcState

\* Noise is never taken for a success, and neither is a reply that is not one.
LEMMA OnlySuccess ==
  /\ \A p : \A b \in Noise : validate_response(p, b) # "success"
  /\ \A p, q : \A status \in Statuses \ {"success"} :
       validate_response(p, Reply(status, q)) # "success"
BY LinkAssumption DEF NoiseAssumed, Replies, Statuses, validate_response, Reply

\* The end of an exchange without an acknowledgement.
LEMMA EndFails ==
  ASSUME LinkInv, NEW how, how # "acknowledged", EndExchange(how), Sending,
         regs' = regs, before' = before,
         inbox' = inbox \/ inbox' = Some(Packet)
  PROVE  LinkInv' /\ Link!Failed
<1> USE DEF LinkInv
<1>1. /\ job' = <<>> /\ sent' = 0 /\ ~Exchange' /\ step' = "write"
  BY DEF EndExchange, Exchange
<1>2. IsWrite(Packet)
  BY JobFacts
<1>3. LinkInv'
  <2>1. WriteTypes'
    BY <1>1, <1>2 DEF WriteTypes, Some
  <2> QED BY <1>1, <2>1 DEF ExchangeInv, ClearInv, AcknowledgedMeansExecuted
<1>4. Link!Failed
  <2>1. CASE Exchange
    BY <1>1, <2>1 DEF Link!Failed, ExchangeInv, Sending, Packet, Some, None
  <2>2. CASE ~Exchange
    BY <1>1, <2>2 DEF Link!Failed, Sending, Packet, Some, None
  <2> QED BY <2>1, <2>2
<1> QED BY <1>3, <1>4

\* A step of the host that sends the report once more.
LEMMA RetryKeeps ==
  ASSUME LinkInv, Sending, step = "read", step' = "write",
         retried' # {},
         UNCHANGED <<job, sent, device, before>>
  PROVE  LinkInv' /\ UNCHANGED Link!vars
<1>1. Exchange /\ Exchange' /\ Packet' = Packet
  BY DEF Exchange, Packet
<1>2. LinkInv'
  BY <1>1 DEF LinkInv, WriteTypes, ExchangeInv, ClearInv, AcknowledgedMeansExecuted,
              Sending, device
<1> QED BY <1>1, <1>2 DEF Link!vars

LEMMA ReplyAccepted ==
  ASSUME LinkInv, Sending, step = "read", EndExchange("acknowledged"),
         UNCHANGED <<device, before>>, validate_response(Packet, reply) = "success"
  PROVE  LinkInv' /\ Link!Acknowledged
<1> USE DEF LinkInv, device
<1>1. /\ job' = job /\ sent' = sent + 1 /\ ~Exchange' /\ step' = "write"
  BY DEF EndExchange, Exchange
<1>2. Exchange /\ inbox = None /\ regs = EcAfter(before.regs, Packet)
  BY DEF Exchange, ExchangeInv
<1>3. /\ sent \in Nat /\ Len(job) \in 1..4 /\ sent + 1 \in 1..Len(job) /\ IsWrite(Packet)
  BY JobFacts
<1>4. LinkInv'
  <2>1. WriteTypes'
    BY <1>1, <1>3 DEF WriteTypes
  <2>2. AcknowledgedMeansExecuted'
    <3>1. regs[Packet.reg] = Packet.val
      BY <1>2, <1>3, WriteKeepsEc DEF WriteTypes
    <3>2. \A i \in 1..(sent + 1) : i \in 1..sent \/ i = sent + 1
      BY <1>3
    <3> QED BY <1>1, <3>1, <3>2 DEF AcknowledgedMeansExecuted, Packet
  <2> QED BY <1>1, <1>2, <2>1, <2>2 DEF ExchangeInv, ClearInv
<1>5. Link!Acknowledged
  BY <1>1, <1>2 DEF Link!Acknowledged, Sending, Packet, None
<1> QED BY <1>4, <1>5

LEMMA HostNext ==
  ASSUME KeepsOldReply = FALSE, LinkInv, HostStep \/ Apply \/ ProcessDies
  PROVE  LinkInv' /\ [Link!Next]_(Link!vars)
<1> USE DEF LinkInv, host, device, history
<1>1. CASE Apply
  <2>1. job' \in Jobs /\ sent' = sent /\ sent = 0 /\ ~Exchange /\ ~Exchange'
    BY <1>1 DEF Apply, WriteTypes, ExchangeInv, Exchange, Sending
  <2>2. /\ Len(job') \in 1..4 /\ job' # <<>>
        /\ \A i \in 1..Len(job') : IsWrite(job'[i])
    <3>1. IsJob(job')
      BY <2>1, LinkAssumption
    <3> QED BY <3>1 DEF IsJob
  <2>3. LinkInv'
    <3>1. WriteTypes'
      BY <1>1, <2>1, <2>2 DEF Apply, WriteTypes
    <3> QED BY <1>1, <2>1, <3>1 DEF Apply, ExchangeInv, ClearInv, AcknowledgedMeansExecuted
  <2>4. Link!Begin
    BY <1>1, <2>1, <2>2 DEF Apply, Link!Begin
  <2> QED BY <2>3, <2>4 DEF Link!Next
<1>2. CASE Applied
  <2>1. ~Exchange /\ ~Exchange' /\ job' = <<>> /\ sent' = 0 /\ sent = Len(job)
    BY <1>2 DEF Applied, Exchange, ExchangeInv, Sending, WriteTypes
  <2>2. LinkInv'
    BY <1>2, <2>1 DEF Applied, WriteTypes, ExchangeInv, ClearInv, AcknowledgedMeansExecuted
  <2>3. Link!Finished
    BY <1>2, <2>1 DEF Applied, Link!Finished
  <2> QED BY <2>2, <2>3 DEF Link!Next
<1>3. CASE WriteReport
  <2>1. /\ Sending /\ Sending' /\ Exchange' /\ Packet' = Packet /\ UNCHANGED <<job, sent, regs>>
        /\ inbox' = Some(Packet) /\ reply' = Reply("new", Packet) /\ step' = "read"
    BY <1>3 DEF WriteReport, Sending, Exchange, Packet
  <2>2. IsWrite(Packet)
    BY <2>1, JobFacts
  <2>3. validate_response(Packet', reply') # "success"
    BY <2>1, OnlySuccess DEF Statuses
  <2>4. /\ regs' \in {before'.regs, EcAfter(before'.regs, Packet)}
        /\ IsEcState(before'.regs) /\ before' = [regs |-> before'.regs, inbox |-> before'.inbox]
    BY <1>3, <2>1 DEF WriteReport, ExchangeInv, WriteTypes
  <2>5. LinkInv'
    <3>1. WriteTypes'
      BY <2>1, <2>2, <2>4 DEF WriteTypes, Some
    <3>2. ExchangeInv'
      BY <2>1, <2>3, <2>4 DEF ExchangeInv
    <3> QED BY <2>1, <3>1, <3>2 DEF ClearInv, AcknowledgedMeansExecuted
  <2>6. UNCHANGED Link!vars
    BY <1>3, <2>1 DEF WriteReport, Link!vars
  <2> QED BY <2>5, <2>6
<1>4. CASE WriteFails
  BY <1>4, EndFails DEF WriteFails, Link!Next
<1>5. CASE ReadFails
  <2>1. Sending
    BY <1>5 DEF ReadFails, ExchangeInv, Exchange
  <2> QED BY <1>5, <2>1, EndFails DEF ReadFails, Link!Next
<1>6. CASE ReadReply
  <2>1. Sending /\ step = "read"
    BY <1>6 DEF ReadReply, ExchangeInv, Exchange
  <2>2. PICK b \in {reply} \cup Noise :
          LET verdict == validate_response(Packet, b)
          IN  \/ verdict \in {"busy", "malformed"} /\ Retry(verdict)
              \/ /\ verdict \in {"success", "verdict"}
                 /\ EndExchange(IF verdict = "success" THEN "acknowledged" ELSE "refused")
                 /\ UNCHANGED <<device, before, busy_seen, malformed_seen>>
    BY <1>6 DEF ReadReply
  <2>3. CASE \E cause \in {"busy", "malformed"} : Retry(cause)
    <3>1. PICK cause \in {"busy", "malformed"} : Retry(cause)
      BY <2>3
    <3>2. UNCHANGED <<regs, inbox, reply, before>>
      BY <3>1 DEF Retry
    <3>3. CASE EndExchange("gave up")
      BY <2>1, <3>2, <3>3, EndFails DEF Link!Next
    <3>4. CASE /\ step' = "write" /\ UNCHANGED <<job, sent>>
               /\ retried' # {}
      BY <2>1, <3>2, <3>4, RetryKeeps
    <3> QED BY <3>1, <3>3, <3>4 DEF Retry
  <2>4. CASE EndExchange("refused") /\ UNCHANGED <<device, before, busy_seen, malformed_seen>>
    BY <2>1, <2>4, EndFails DEF Link!Next
  <2>5. CASE /\ EndExchange("acknowledged") /\ UNCHANGED <<device, before, busy_seen, malformed_seen>>
             /\ validate_response(Packet, b) = "success"
    <3>1. validate_response(Packet, reply) = "success"
      BY <2>5, OnlySuccess
    <3> QED BY <2>1, <2>5, <3>1, ReplyAccepted DEF Link!Next
  <2> QED BY <2>2, <2>3, <2>4, <2>5
<1>7. CASE ProcessDies
  <2>1. CASE Sending
    BY <1>7, <2>1, EndFails DEF ProcessDies, Link!Next
  <2>2. CASE ~Sending
    <3>1. job \in Jobs /\ job # <<>> /\ EndExchange("process died")
      BY <1>7 DEF ProcessDies, WriteTypes
    <3>2. Len(job) \in 1..4 /\ sent = Len(job)
      <4>1. IsJob(job)
        BY <3>1, LinkAssumption
      <4>2. Len(job) \in 1..4
        BY <4>1 DEF IsJob
      <4> QED BY <2>2, <4>2 DEF WriteTypes, Sending
    <3>3. ~Exchange /\ ~Exchange' /\ job' = <<>> /\ sent' = 0 /\ step' = "write"
      BY <2>2, <3>1 DEF EndExchange, Exchange, ExchangeInv
    <3>4. WriteTypes'
      <4>1. UNCHANGED <<regs, inbox, before>>
        BY <1>7 DEF ProcessDies
      <4> QED BY <3>3, <4>1 DEF WriteTypes
    <3>5. LinkInv'
      BY <3>3, <3>4 DEF ExchangeInv, ClearInv, AcknowledgedMeansExecuted
    <3>6. Link!Finished
      BY <1>7, <3>1, <3>2, <3>3 DEF ProcessDies, Link!Finished
    <3> QED BY <3>5, <3>6 DEF Link!Next
  <2> QED BY <2>1, <2>2
<1> QED BY <1>1, <1>2, <1>3, <1>4, <1>5, <1>6, <1>7 DEF HostStep

LEMMA EcNext ==
  ASSUME LinkInv, EcExecutes \/ EcRefuses \/ EcBusy
  PROVE  LinkInv' /\ [Link!Next]_(Link!vars)
<1> USE DEF LinkInv, host, device, history
<1>1. /\ UNCHANGED <<job, sent, step, retried, before>>
      /\ Exchange' = Exchange /\ Packet' = Packet /\ Sending' = Sending
  BY DEF EcExecutes, EcRefuses, EcBusy, Exchange, Packet, Sending
<1>2. PICK p \in inbox : \/ regs' = EcAfter(regs, p) /\ reply' = Reply("success", p) /\ inbox' = None
                         \/ /\ \E status \in Statuses \ {"success"} : reply' = Reply(status, p)
                            /\ regs' = regs /\ inbox' \in {inbox, None}
  BY DEF EcExecutes, EcRefuses, EcBusy, Statuses
<1>3. IsWrite(p)
  BY DEF WriteTypes
<1>4. WriteTypes'
  BY <1>1, <1>2, <1>3, WriteKeepsEc DEF WriteTypes, None
<1>5. CASE Exchange
  <2>1. p = Packet /\ Sending
    BY <1>5 DEF ExchangeInv, Some, None
  <2>2. EcAfter(regs, p) = EcAfter(before.regs, Packet)
    BY <1>3, <1>5, <2>1, WriteKeepsEc DEF ExchangeInv, WriteTypes
  <2>3. regs' \in {before.regs, EcAfter(before.regs, Packet)}
    BY <1>2, <1>5, <2>2 DEF ExchangeInv
  <2>4. ExchangeInv'
    <3>1. inbox' \in {None, Some(Packet)}
      BY <1>2, <1>5 DEF ExchangeInv
    <3>2. validate_response(Packet, reply') = "success" =>
            inbox' = None /\ regs' = EcAfter(before.regs, Packet)
      BY <1>2, <2>2, OnlySuccess
    <3> QED BY <1>1, <1>5, <2>1, <2>3, <3>1, <3>2 DEF ExchangeInv
  <2>5. AcknowledgedMeansExecuted'
    <3>1. \A i \in 1..sent : regs'[job[i].reg] = regs[job[i].reg]
      BY <1>2, <2>1, JobFacts, WriteKeepsEc DEF WriteTypes
    <3> QED BY <1>1, <3>1 DEF AcknowledgedMeansExecuted
  <2>6. UNCHANGED Link!vars
    BY <1>1, <1>5 DEF Link!vars
  <2> QED BY <1>1, <1>4, <1>5, <2>4, <2>5, <2>6 DEF ClearInv
<1>6. CASE ~Exchange
  <2>1. sent = 0
    BY <1>2, <1>6 DEF ClearInv, WriteTypes, None
  <2>2. LinkInv'
    BY <1>1, <1>4, <1>6, <2>1 DEF ExchangeInv, ClearInv, AcknowledgedMeansExecuted
  <2>3. Link!LateWrite \/ Link!Forgotten \/ UNCHANGED Link!vars
    BY <1>1, <1>2, <1>6 DEF Link!LateWrite, Link!Forgotten, Link!vars, None
  <2> QED BY <2>2, <2>3 DEF Link!Next
<1> QED BY <1>5, <1>6

LEMMA LinkInit == Init => LinkInv /\ Link!Init
<1> SUFFICES ASSUME Init PROVE LinkInv /\ Link!Init
  OBVIOUS
<1>1. ~Exchange /\ IsEcState(regs)
  BY LinkAssumption DEF Init, Exchange
<1> QED BY <1>1 DEF Init, LinkInv, WriteTypes, ExchangeInv, ClearInv,
                    AcknowledgedMeansExecuted, Link!Init, None

LEMMA LinkStep ==
  ASSUME KeepsOldReply = FALSE, LinkInv, [Next]_vars
  PROVE  LinkInv' /\ [Link!Next]_(Link!vars)
<1>1. CASE UNCHANGED vars
  <2>1. /\ UNCHANGED <<job, sent, step, regs, inbox, reply, before>>
        /\ Exchange' = Exchange /\ Packet' = Packet /\ Sending' = Sending
    BY <1>1 DEF vars, host, device, history, Exchange, Packet, Sending
  <2> QED BY <2>1 DEF LinkInv, WriteTypes, ExchangeInv, ClearInv,
                      AcknowledgedMeansExecuted, Link!vars
<1> QED BY <1>1, HostNext, EcNext DEF Next

\* The exchange implements the link the daemon relies on.
THEOREM ExchangeImplementsLink ==
  ASSUME KeepsOldReply = FALSE
  PROVE  Spec => ImplementsLink
<1>1. Init => LinkInv /\ Link!Init
  BY LinkInit
<1>2. LinkInv /\ [Next]_vars => LinkInv' /\ [Link!Next]_(Link!vars)
  BY LinkStep
<1> QED BY <1>1, <1>2, PTL DEF Spec, ImplementsLink, Link!Spec

\* A packet that was acknowledged is in the EC for the rest of its operation.
THEOREM AcknowledgedCorrect ==
  ASSUME KeepsOldReply = FALSE
  PROVE  Spec => []AcknowledgedMeansExecuted
<1>1. Init => LinkInv
  BY LinkInit
<1>2. LinkInv /\ [Next]_vars => LinkInv'
  BY LinkStep
<1>3. LinkInv => AcknowledgedMeansExecuted
  BY DEF LinkInv
<1> QED BY <1>1, <1>2, <1>3, PTL DEF Spec

-----------------------------------------------------------------------------
(* The types *)

\* Whatever the link does: an exchange is one of a packet that is there.
TypeInv == TypeOK /\ (Exchange => Sending)

LEMMA PacketIsWrite ==
  ASSUME TypeInv, Sending
  PROVE  IsWrite(Packet) /\ sent + 1 \in 0..Len(job)
<1>1. job \in Jobs
  BY DEF TypeInv, TypeOK, Sending
<1>2. IsJob(job)
  BY <1>1, LinkAssumption
<1>3. Len(job) \in 1..4
  BY <1>2 DEF IsJob
<1>4. sent + 1 \in 1..Len(job)
  BY <1>3 DEF TypeInv, TypeOK, Sending
<1> QED BY <1>2, <1>4 DEF IsJob, Packet

LEMMA ReplyIsReply ==
  ASSUME NEW status \in Statuses, NEW p, p.reg \in Registers
  PROVE  Reply(status, p) \in Replies
BY DEF Reply, Replies, Commands

\* However an exchange ends, the host is ready to write.
LEMMA EndTypes ==
  ASSUME TypeInv, NEW how \in Endings, EndExchange(how),
         how = "acknowledged" => Sending
  PROVE  /\ job' \in Jobs \cup {<<>>} /\ sent' \in 0..Len(job') /\ step' \in {"write", "read"}
         /\ retried' \subseteq {"busy", "malformed"} /\ ended' \in Endings
         /\ ~Exchange'
<1>1. step' = "write" /\ retried' = {} /\ ended' = how
  BY DEF EndExchange
<1>2. CASE how = "acknowledged"
  BY <1>1, <1>2, PacketIsWrite DEF EndExchange, TypeInv, TypeOK, Exchange
<1>3. CASE how # "acknowledged"
  <2>1. job' = <<>> /\ sent' = 0
    BY <1>3 DEF EndExchange
  <2> QED BY <1>1, <2>1 DEF Exchange
<1> QED BY <1>2, <1>3

LEMMA CountRange == \A n \in {0, 1, 2} : n \in 0..2
OBVIOUS

LEMMA TypeNext ==
  ASSUME TypeInv, RetryInv', [Next]_vars
  PROVE  TypeInv'
<1> USE DEF TypeInv, host, device, history
<1>0. busy_seen' \in 0..2 /\ malformed_seen' \in 0..2
  <2>1. RetryTypes'
    BY DEF RetryInv
  <2> QED BY <2>1, CountRange DEF RetryTypes
<1>1. CASE Apply
  <2>1. sent = 0 /\ ~Exchange /\ ~Exchange' /\ sent' = 0 /\ job' \in Jobs
    BY <1>1 DEF Apply, TypeOK, Exchange, Sending
  <2>2. 0 \in 0..Len(job')
    <3>1. IsJob(job')
      BY <2>1, LinkAssumption
    <3> QED BY <3>1 DEF IsJob
  <2> QED BY <1>1, <2>1, <2>2 DEF Apply, TypeOK
<1>2. CASE Applied
  BY <1>2 DEF Applied, TypeOK, Exchange
<1>3. CASE WriteReport
  <2>1. Sending /\ IsWrite(Packet)
    BY <1>3, PacketIsWrite DEF WriteReport
  <2>2. reply' \in Replies /\ \A p, q \in inbox' : IsWrite(p) /\ p = q
    BY <1>3, <2>1, ReplyIsReply DEF WriteReport, TypeOK, Some, Statuses, IsWrite
  <2>3. IsEcState(before'.regs) /\ \A p, q \in before'.inbox : IsWrite(p) /\ p = q
    BY <1>3 DEF WriteReport, TypeOK
  <2>4. Sending'
    BY <1>3, <2>1 DEF WriteReport, Sending
  <2> QED BY <1>0, <1>3, <2>2, <2>3, <2>4 DEF WriteReport, TypeOK
<1>4. CASE WriteFails
  <2>1. Sending /\ IsWrite(Packet)
    BY <1>4, PacketIsWrite DEF WriteFails
  <2>2. \A p, q \in inbox' : IsWrite(p) /\ p = q
    BY <1>4, <2>1 DEF WriteFails, TypeOK, Some
  <2> QED BY <1>0, <1>4, <2>2, EndTypes DEF WriteFails, TypeOK, Endings
<1>5. CASE ReadFails \/ ProcessDies
  BY <1>0, <1>5, EndTypes DEF ReadFails, ProcessDies, TypeOK, Endings
<1>6. CASE ReadReply
  <2>1. Sending /\ step = "read" /\ UNCHANGED <<device, before>>
    BY <1>6 DEF ReadReply, Exchange, Retry
  <2>2. \/ \E how \in Endings : EndExchange(how)
        \/ /\ step' = "write" /\ UNCHANGED <<job, sent, ended>>
           /\ retried' \subseteq retried \cup {"busy", "malformed"}
    BY <1>6 DEF ReadReply, Retry, Endings
  <2>3. CASE \E how \in Endings : EndExchange(how)
    BY <1>0, <2>1, <2>3, EndTypes DEF TypeOK
  <2>4. CASE /\ step' = "write" /\ UNCHANGED <<job, sent, ended>>
             /\ retried' \subseteq retried \cup {"busy", "malformed"}
    BY <1>0, <2>1, <2>4 DEF TypeOK, Sending
  <2> QED BY <2>2, <2>3, <2>4
<1>7. CASE EcExecutes \/ EcRefuses \/ EcBusy
  <2>1. UNCHANGED <<host, history>> /\ Exchange' = Exchange /\ Sending' = Sending
    BY <1>7 DEF EcExecutes, EcRefuses, EcBusy, Exchange, Sending
  <2>2. PICK p \in inbox : /\ \E status \in Statuses : reply' = Reply(status, p)
                           /\ regs' = regs \/ regs' = EcAfter(regs, p)
                           /\ inbox' \in {inbox, None}
    BY <1>7 DEF EcExecutes, EcRefuses, EcBusy, Statuses
  <2>3. IsWrite(p) /\ IsEcState(regs)
    BY DEF TypeOK
  <2>4. reply' \in Replies /\ IsEcState(regs')
    BY <2>2, <2>3, ReplyIsReply, WriteKeepsEc DEF IsWrite
  <2>5. \A q, r \in inbox' : IsWrite(q) /\ q = r
    BY <2>2 DEF TypeOK, None
  <2> QED BY <2>1, <2>4, <2>5 DEF TypeOK
<1>8. CASE UNCHANGED vars
  BY <1>8 DEF vars, TypeOK, Exchange, Sending
<1> QED BY <1>1, <1>2, <1>3, <1>4, <1>5, <1>6, <1>7, <1>8 DEF Next, HostStep

\* The host's flags, the EC's registers, the reply it holds and the report it
\* has not dealt with are what the code and the wire allow, on every link.
THEOREM TypeCorrect == Spec => []TypeOK
<1>1. Init => TypeInv /\ RetryInv
  <2> SUFFICES ASSUME Init PROVE TypeInv /\ RetryInv
    OBVIOUS
  <2>1. RetryInv
    BY DEF Init, RetryInv, RetryTypes, Seen, Exchange
  <2>2. Write(Bho, 0).reg \in Registers /\ IsEcState(regs)
    BY LinkAssumption DEF Init, Write, Registers
  <2>3. reply \in Replies
    BY <2>2, ReplyIsReply DEF Init, Statuses
  <2> QED BY <2>1, <2>2, <2>3 DEF Init, TypeInv, TypeOK, Exchange, None, Endings
<1>2. TypeInv /\ RetryInv /\ [Next]_vars => TypeInv' /\ RetryInv'
  BY RetryNext, TypeNext
<1>3. TypeInv => TypeOK
  BY DEF TypeInv
<1> QED BY <1>1, <1>2, <1>3, PTL DEF Spec
=============================================================================
