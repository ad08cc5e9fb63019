------------------------------- MODULE EcLink -------------------------------
(***************************************************************************)
(* What the daemon may rely on when it has a backend apply an operation    *)
(* (Backend::apply): the packets of a job are executed one after the       *)
(* other, an acknowledged packet has been executed and nothing is on its   *)
(* way any more, and the first packet without an acknowledgement ends the  *)
(* job.  RazerDaemon uses a link like this one, HidExchange implements it. *)
(***************************************************************************)
EXTENDS Integers, Sequences

CONSTANTS
  IsEcState(_),  (* the EC's registers are as they can be                  *)
  IsWrite(_),    (* a packet that writes a register                        *)
  EcAfter(_, _)  (* the registers once a packet has been executed          *)

VARIABLES
  job,    (* the packets of the running operation, <<>> when there is none *)
  sent,   (* how many of them have been acknowledged                       *)
  ec,     (* the registers                                                 *)
  late    (* a packet the EC took in, to execute later or never            *)

vars == <<job, sent, ec, late>>

Init == job = <<>> /\ sent = 0 /\ IsEcState(ec) /\ late = {}

Begin ==
  /\ job = <<>> /\ job' # <<>>
  /\ \A i \in 1..Len(job') : IsWrite(job'[i])
  /\ sent' = 0
  /\ UNCHANGED <<ec, late>>

Acknowledged ==
  /\ sent < Len(job)
  /\ ec' = EcAfter(ec, job[sent + 1]) /\ late' = {}
  /\ sent' = sent + 1
  /\ UNCHANGED job

\* The packet never reached the EC, the EC has it and may execute it later, or
\* the EC has executed it, and may do so again.
Failed ==
  /\ sent < Len(job)
  /\ LET p == job[sent + 1]
     IN  \/ UNCHANGED ec /\ late' \in {late, {}, {p}}
         \/ ec' = EcAfter(ec, p) /\ late' \in {{}, {p}}
  /\ job' = <<>> /\ sent' = 0

Finished ==
  /\ job # <<>> /\ sent = Len(job)
  /\ job' = <<>> /\ sent' = 0
  /\ UNCHANGED <<ec, late>>

LateWrite ==
  /\ \E p \in late : ec' = EcAfter(ec, p)
  /\ late' = {}
  /\ UNCHANGED <<job, sent>>

Forgotten ==
  /\ late' = {}
  /\ UNCHANGED <<job, sent, ec>>

Next == Begin \/ Acknowledged \/ Failed \/ Finished \/ LateWrite \/ Forgotten

Spec == Init /\ [][Next]_vars
=============================================================================
