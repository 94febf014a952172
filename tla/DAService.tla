----------------------------- MODULE DAService -----------------------------
(***************************************************************************)
(* What the alt-DA server promises its two clients, op-batcher (PUT) and   *)
(* op-node (GET): a ledger of published blobs that only grows, and answers *)
(* that are given once, never change, and agree with the ledger and with   *)
(* the commitment that was asked for.  It says nothing of S3, of timeouts, *)
(* of retries or of restarts: those are DAServer's, which refines this.    *)
(***************************************************************************)
EXTENDS Commitments

VARIABLES ledger,  \* the blobs published on Celestia, each at its height
          answer   \* what each request was answered

Nothing == [status |-> 0]
Committed(c) == [status |-> 200, comm |-> c]
Served(c, b) == [status |-> 200, comm |-> c, data |-> b]
Refused(s) == [status |-> s]

Init == /\ ledger = {}
        /\ answer = [r \in Puts \cup Gets |-> Nothing]

(* A blob appears on Celestia: on behalf of a PUT, answered or not.        *)
Publish(h, b) == /\ ledger' = ledger \cup {[height |-> h, data |-> b]}
                 /\ UNCHANGED answer

Answer(r, a) == /\ answer[r] = Nothing
                /\ answer' = [answer EXCEPT ![r] = a]
                /\ UNCHANGED ledger

(* A PUT is acknowledged with the certificate of a blob that is published. *)
Acknowledge(p, e) == Answer(p, Committed(Certificate(e.height, e.data)))

(* A GET is served a payload that has the requested share commitment.      *)
Serve(g, h, b) == Answer(g, Served(Certificate(h, b), b))

Refuse(r, s) == Answer(r, Refused(s))

Next == \/ \E h \in Heights, b \in Blobs: Publish(h, b)
        \/ \E p \in Puts: \E e \in ledger: Acknowledge(p, e)
        \/ \E g \in Gets: \E h \in Heights, b \in Blobs: Serve(g, h, b)
        \/ \E p \in Puts, s \in {400, 405, 413, 500}: Refuse(p, s)
        \/ \E g \in Gets, s \in {400, 404, 405, 500}: Refuse(g, s)

Spec == Init /\ [][Next]_<<ledger, answer>>
=============================================================================
