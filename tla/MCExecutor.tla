----------------------------- MODULE MCExecutor -----------------------------
(***************************************************************************)
(* Four nodes; the client sends one request to First and the same or another     *)
(* one to Second.  One node, Slow, takes its messages in any order: the key of     *)
(* Late and the messages of the consensus may come to it at any time.  The       *)
(* others take theirs in the order of the phases before Slow goes on, competing   *)
(* proposals in either order.  The timeout tasks of the nodes of Timed may fire   *)
(* before a commit, so that a permit outlives the request, or after it.           *)
(***************************************************************************)
EXTENDS Executor, TLC

CONSTANTS Slow, Late, First, Second, Timed

Rank == "DistributePK" :> 1 @@ "PublicKey" :> 2 @@ "PrePrepare" :> 3
          @@ "Prepare" :> 4 @@ "Commit" :> 5 @@ "ViewChange" :> 6

Pending(n) == {m \in sent \ seen[n] : Arrives(n, m)}

FirstPending(n) ==
  {m \in Pending(n) : \A x \in Pending(n) : Rank[m.type] <= Rank[x.type]}

\* Does the key exchange go on, but for the key of Late?
KeyPending(n) == {m \in FirstPending(n) : Rank[m.type] <= 2 /\ (n = Slow => m.from # Late)}

Busy == {n \in Node : alive[n] /\ IF n = Slow THEN KeyPending(n) # {} ELSE Pending(n) # {}}

\* Messages of one type for one request are interchangeable, up to whether n holds the
\* sender's key.
Choices(n, from) ==
  {m \in from : m = CHOOSE x \in from : /\ x.type = m.type /\ x.req = m.req
                                        /\ (x.from \in pks[n]) = (m.from \in pks[n])}

ClientKeys == {m \in sent \ seen[Client] : m.type = "PublicKey"}

FastStep ==
  \/ ClientKeys = {} /\ \E n \in Busy :
       /\ n = CHOOSE x \in Busy : TRUE
       /\ \E m \in Choices(n, IF n = Slow THEN KeyPending(n) ELSE FirstPending(n)) : Deliver(n, m)
  \/ ClientKeys # {} /\ ClientStoragePublicKey(CHOOSE m \in ClientKeys : TRUE)

NewReplies == replies \ replyTaken

\* A permit that is spent on a node in Mode::Abnormal is taken at once, and so is what
\* Slow ignores.
Spent == {n \in Timed : alive[n] /\ permit[n] /\ mode[n] = "Abnormal"}

Inert ==
  {m \in Pending(Slow) :
     \/ alive[Slow] /\ mode[Slow] = "Abnormal"
     \/ alive[Slow] /\ m.type \in {"Prepare", "Commit"} /\ requests[Slow] \notin {NoRequest, m.req}}

Settled == Busy \cup NewReplies \cup Inert \cup Spent \cup ClientKeys = {}

Proposals == {m \in sent : m.type = "PrePrepare"}

SlowStep ==
  \/ Settled /\ \E m \in Choices(Slow, Pending(Slow)) : Deliver(Slow, m)
  \/ Busy = {} /\ Inert # {} /\ Deliver(Slow, CHOOSE m \in Inert : TRUE)

OtherStep ==
  \/ sent = {} /\ CommandDistributePK
  \/ /\ sent # {} /\ Settled /\ Proposals = {}
     /\ \/ inbox = {} /\ CommandRequest(CHOOSE r \in Request : TRUE, First)
        \/ Cardinality(inbox) = 1 /\ \E r \in Request : CommandRequest(r, Second)
  \/ /\ Cardinality(inbox) = 2 \/ Proposals # {}
     /\ \E r \in Request : \E n \in {First, Second} : HandleRequest(n, r)
  \/ \E n \in Timed :
       /\ ~permit[n]
       /\ Settled \/ (n # Slow /\ \E r \in Request : phase[n][r] = "Prepared")
       /\ TimeoutCheck(n)
  \/ Settled /\ \E n \in Timed : ViewchangeNotified(n)
  \/ Spent # {} /\ ViewchangeNotified(CHOOSE n \in Spent : TRUE)
  \/ Busy = {} /\ NewReplies # {} /\ HandleReply(CHOOSE m \in NewReplies : TRUE)

SlowSpec == Init /\ [][FastStep \/ SlowStep \/ OtherStep]_vars

=============================================================================
