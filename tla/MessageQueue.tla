----------------------------- MODULE MessageQueue -----------------------------
(***************************************************************************)
(* The System V message queue between the alert and emergency modules,     *)
(* which send, and their listeners, which receive by message type.  Queues *)
(* belong to the kernel, one for each key: a queue outlives its process    *)
(* unless end_conn() removes it, and is found again by whichever later     *)
(* process makes the same key.                                             *)
(***************************************************************************)
EXTENDS Integers, Sequences

CONSTANTS
  QueueCap,   (* messages the kernel keeps in one queue                    *)
  Keys        (* what ftok() may return: it depends on the key file's inode *)

ASSUME QueueAssumption == QueueCap \in Nat \ {0} /\ Keys # {}

VARIABLES
  queues,   (* the queue of each key; messages of a type oldest first      *)
  key       (* the key the process has made its queue with                 *)

NoQueue == [live |-> FALSE, zeroId |-> FALSE, alerts |-> <<>>, emergencies |-> <<>>]

(* msgget() returns some identifier; 0 is one, and that of the first queue  *)
(* the system ever makes.                                                   *)
NewQueue(zero) == [NoQueue EXCEPT !.live = TRUE, !.zeroId = zero]

(* The queue of the process: that of msg_id. *)
queueLive   == queues[key].live
zeroId      == queues[key].zeroId
alerts      == queues[key].alerts
emergencies == queues[key].emergencies

HasRoom == Len(alerts) + Len(emergencies) < QueueCap

(* send_alert_msqueue() takes an identifier of 0 for an error of msgget().  *)
(* With any other it sends, and msgsnd() blocks while the queue is full ... *)
CanSend == queueLive /\ ~zeroId /\ HasRoom

SendAlertMutant(m) ==   \* msgsnd() with IPC_NOWAIT, its failure ignored
  /\ queueLive /\ ~zeroId
  /\ queues' = IF HasRoom THEN [queues EXCEPT ![key].alerts = Append(@, m)] ELSE queues
  /\ UNCHANGED key

SendAlert(m) == /\ CanSend
                /\ queues' = [queues EXCEPT ![key].alerts = Append(@, m)]
                /\ UNCHANGED key

SendEmergency(m) == /\ CanSend
                    /\ queues' = [queues EXCEPT ![key].emergencies = Append(@, m)]
                    /\ UNCHANGED key

SendFailsMutant == ~queueLive \/ zeroId \/ ~HasRoom   \* msgsnd() with IPC_NOWAIT

(* ... and fails once the queue is gone, waiting senders included. *)
SendFails == ~queueLive \/ zeroId

(* msgrcv() blocks until a message of its type is there.  Once the queue is *)
(* gone it fails, and the listeners try again for ever.                     *)
ReceiveAlert == /\ queueLive /\ alerts # <<>>
                /\ queues' = [queues EXCEPT ![key].alerts = Tail(@)]
                /\ UNCHANGED key

ReceiveEmergencyMutant ==   \* msgrcv() with MSG_COPY: the message stays
  queueLive /\ emergencies # <<>> /\ UNCHANGED <<queues, key>>

ReceiveEmergency == /\ queueLive /\ emergencies # <<>>
                    /\ queues' = [queues EXCEPT ![key].emergencies = Tail(@)]
                    /\ UNCHANGED key

(* msgctl(IPC_RMID): the queue and what it held are gone; a second call fails *)
(* and its result is ignored.                                                 *)
RemoveQueue == /\ queues' = [queues EXCEPT ![key] = NoQueue]
               /\ UNCHANGED key

(* create_message_queue() of a new process.  The key file is deleted and     *)
(* created again, so any key may come of its inode; msgget() returns the     *)
(* queue of that key, be it one that an earlier process has left, or makes   *)
(* one.  The queues of other keys stay.                                      *)
CreateQueue ==
  \E k \in Keys :
    /\ key' = k
    /\ \/ queues[k].live /\ UNCHANGED queues
       \/ /\ ~queues[k].live
          /\ \E zero \in BOOLEAN :
               /\ zero => \A j \in Keys : ~queues[j].zeroId
               /\ queues' = [queues EXCEPT ![k] = NewQueue(zero)]
===============================================================================
