----------------------------- MODULE RemoteFetch -----------------------------
(***************************************************************************)
(* The remote fetch protocol behind a sequence of collective subgrid      *)
(* loads (GridSpaceMPI::LoadSubgrid), one per stencil parameter read      *)
(* through a subregion.  Its body is not in the repository; the protocol  *)
(* is modelled from spec section 4.4 and the declarations of              *)
(* runtime/grid_mpi.h:                                                     *)
(*   - CollectPerProcSubgridInfo intersects the region with every other   *)
(*     process's partition and SendFetchRequest sends a FETCH_REQUEST to  *)
(*     each owner;                                                         *)
(*   - the process then serves messages received from any source          *)
(*     (RecvGridRequest(comm)): HandleFetchRequest replies FETCH_REPLY    *)
(*     with its grid's data, HandleFetchReply installs a reply into the   *)
(*     remote grid and drops its owner from the pending map;              *)
(*   - once nothing is pending it sends DONE to every other process, and  *)
(*     it leaves when it has a DONE from each of them.                    *)
(* A message is a GridRequest: my_rank and kind.  Spec section 4.4 also   *)
(* tags requests and replies with an identifier of the fetch; the         *)
(* constant RequestCarriesId chooses between the two.  The field "id" is  *)
(* always recorded, and is read by the processes only when it is TRUE.    *)
(* MPI delivers messages between two processes in order (channels are     *)
(* FIFO) and reliably (spec section 7).                                    *)
(***************************************************************************)
EXTENDS Integers, Sequences, FiniteSets

CONSTANTS
    Procs,              \* the MPI processes
    NCalls,             \* consecutive LoadSubgrid calls, on grids 1..NCalls
    Owners,             \* Owners[c][p]: processes whose partition meets p's region in load c
    RequestCarriesId    \* a GridRequest carries the fetch identifier

ASSUME RequestCarriesId \in BOOLEAN

Calls == 1..NCalls

VARIABLES
    call,       \* the load each process is in; NCalls + 1 once past all
    sent,       \* the process has sent its fetch requests for this load
    pending,    \* fetch_map: owners whose reply has not arrived
    doneSent,   \* the process has sent DONE for this load
    dones,      \* <<q, c>>: a DONE of q counted for load c
    remote,     \* the pieces installed in the remote grid this load
    got,        \* history: the remote grid of each finished load
    chan        \* chan[<<p, q>>]: messages from p to q in flight

vars == <<call, sent, pending, doneSent, dones, remote, got, chan>>

FetchRequest == "FETCH_REQUEST"
FetchReply == "FETCH_REPLY"
Done == "DONE"

Msg(kind, from, id, grid) == [kind |-> kind, my_rank |-> from, id |-> id, grid |-> grid]

Piece(o, c) == [owner |-> o, grid |-> c]

(* Append m to the channels from p to each process of `to`.                *)
Broadcast(p, to, m) ==
    [e \in DOMAIN chan |-> IF e[1] = p /\ e[2] \in to THEN Append(chan[e], m) ELSE chan[e]]

-----------------------------------------------------------------------------
(* The owners CollectPerProcSubgridInfo makes FetchInfos for, including   *)
(* the requester itself.                                                   *)
FetchTargetsWithSelf(c, p) == Owners[c][p]

(* CollectPerProcSubgridInfo: every owner of part of the region but the   *)
(* requester itself.                                                       *)
FetchTargets(c, p) == Owners[c][p] \ {p}

(* The grid an owner serves a request from: always its current load's.    *)
ServedGridCurrent(m, p) == call[p]

(* HandleFetchRequest(req, g) serves the grid g of the owner's current    *)
(* load, unless the request names its fetch.                               *)
ServedGrid(m, p) == IF RequestCarriesId THEN m.id ELSE call[p]

(* A DONE counted for the receiver's current load.                         *)
DoneCallCurrent(m, p) == call[p]

(* The load a received DONE is counted for.                                *)
DoneCall(m, p) == IF RequestCarriesId THEN m.id ELSE call[p]

(* Leaving once the own fetch is complete and DONE is sent.                *)
ExitReadyNoDones(p) ==
    sent[p] /\ pending[p] = {} /\ doneSent[p]

(* The loop ends when nothing is pending, DONE is sent and a DONE of this *)
(* load came from every other process.                                     *)
ExitReady(p) ==
    /\ sent[p] /\ pending[p] = {} /\ doneSent[p]
    /\ \A q \in Procs \ {p} : <<q, call[p]>> \in dones[p]

-----------------------------------------------------------------------------
Init ==
    /\ call = [p \in Procs |-> 1]
    /\ sent = [p \in Procs |-> FALSE]
    /\ pending = [p \in Procs |-> {}]
    /\ doneSent = [p \in Procs |-> FALSE]
    /\ dones = [p \in Procs |-> {}]
    /\ remote = [p \in Procs |-> {}]
    /\ got = [p \in Procs |-> [c \in Calls |-> {}]]
    /\ chan = [e \in Procs \X Procs |-> <<>>]

(* CollectPerProcSubgridInfo, then SendFetchRequest for each FetchInfo.    *)
SendFetchRequests(p) ==
    /\ call[p] <= NCalls /\ ~sent[p]
    /\ sent' = [sent EXCEPT ![p] = TRUE]
    /\ pending' = [pending EXCEPT ![p] = FetchTargets(call[p], p)]
    /\ chan' = Broadcast(p, FetchTargets(call[p], p), Msg(FetchRequest, p, call[p], 0))
    /\ UNCHANGED <<call, doneSent, dones, remote, got>>

(* The loop's next message from q is of the given kind.                    *)
NextFrom(q, p, kind) ==
    /\ call[p] <= NCalls /\ sent[p]
    /\ chan[<<q, p>>] # <<>>
    /\ Head(chan[<<q, p>>]).kind = kind

(* HandleFetchRequest: reply with the requested part of the grid.          *)
HandleFetchRequest(p, q) ==
    LET m == Head(chan[<<q, p>>]) IN
    /\ NextFrom(q, p, FetchRequest)
    /\ chan' = [chan EXCEPT ![<<q, p>>] = Tail(@),
                            ![<<p, q>>] = Append(@, Msg(FetchReply, p, m.id, ServedGrid(m, p)))]
    /\ UNCHANGED <<call, sent, pending, doneSent, dones, remote, got>>

(* HandleFetchReply: install the reply and drop its owner from fetch_map.  *)
HandleFetchReply(p, q) ==
    LET m == Head(chan[<<q, p>>]) IN
    /\ NextFrom(q, p, FetchReply)
    /\ chan' = [chan EXCEPT ![<<q, p>>] = Tail(@)]
    /\ pending' = [pending EXCEPT ![p] = @ \ {q}]
    /\ remote' = [remote EXCEPT ![p] = @ \cup {Piece(q, m.grid)}]
    /\ UNCHANGED <<call, sent, doneSent, dones, got>>

(* A DONE from q.                                                          *)
HandleDone(p, q) ==
    LET m == Head(chan[<<q, p>>]) IN
    /\ NextFrom(q, p, Done)
    /\ chan' = [chan EXCEPT ![<<q, p>>] = Tail(@)]
    /\ dones' = [dones EXCEPT ![p] = @ \cup {<<q, DoneCall(m, p)>>}]
    /\ UNCHANGED <<call, sent, pending, doneSent, remote, got>>

(* Nothing pending: tell every other process.                              *)
SendDone(p) ==
    /\ call[p] <= NCalls /\ sent[p] /\ pending[p] = {} /\ ~doneSent[p]
    /\ doneSent' = [doneSent EXCEPT ![p] = TRUE]
    /\ chan' = Broadcast(p, Procs \ {p}, Msg(Done, p, call[p], 0))
    /\ UNCHANGED <<call, sent, pending, dones, remote, got>>

(* LoadSubgrid returns: the remote grid is complete; the next load starts. *)
Exit(p) ==
    /\ call[p] <= NCalls
    /\ ExitReady(p)
    /\ got' = [got EXCEPT ![p][call[p]] = remote[p]]
    /\ call' = [call EXCEPT ![p] = @ + 1]
    /\ sent' = [sent EXCEPT ![p] = FALSE]
    /\ doneSent' = [doneSent EXCEPT ![p] = FALSE]
    /\ remote' = [remote EXCEPT ![p] = {}]
    /\ UNCHANGED <<pending, dones, chan>>

(* RecvGridRequest(comm): the next message from any source.                *)
Receive(p) ==
    \E q \in Procs \ {p} :
        HandleFetchRequest(p, q) \/ HandleFetchReply(p, q) \/ HandleDone(p, q)

Next ==
    \E p \in Procs :
        \/ SendFetchRequests(p)
        \/ Receive(p)
        \/ SendDone(p)
        \/ Exit(p)

(* Each process runs its program, and a process blocked in a receive with *)
(* a message for it receives one (MPI progress).                           *)
Fairness ==
    \A p \in Procs :
        /\ WF_vars(SendFetchRequests(p))
        /\ WF_vars(Receive(p))
        /\ WF_vars(SendDone(p))
        /\ WF_vars(Exit(p))

Spec == Init /\ [][Next]_vars /\ Fairness

-----------------------------------------------------------------------------
TypeOK ==
    /\ call \in [Procs -> 1..(NCalls + 1)]
    /\ \A p \in Procs : pending[p] \subseteq Procs \ {p}
    /\ \A p \in Procs : dones[p] \subseteq (Procs \ {p}) \X Calls
    /\ \A p \in Procs : remote[p] \subseteq [owner : Procs \ {p}, grid : Calls]

(* Every reply a process installs during load c carries data of grid c,   *)
(* although other processes may already be in the next load and sending  *)
(* its requests.                                                           *)
FetchedFromRequestedGrid ==
    \A p \in Procs : \A r \in remote[p] : r.grid = call[p]

(* The remote fetch refines its abstract specification: each load gives   *)
(* every process exactly the data it needs of that load's grid, and no    *)
(* process leaves a load while another still waits for data of it.        *)
Abs == INSTANCE RemoteFetchSpec WITH
    acall <- call,
    complete <- [p \in Procs |-> call[p] <= NCalls /\ sent[p] /\ pending[p] = {}],
    agot <- [p \in Procs |-> [c \in Calls |->
               IF c = call[p] /\ sent[p] /\ pending[p] = {} THEN remote[p] ELSE got[p][c]]]

AbsSpec == Abs!Spec

(* Every process gets through every load, and no message is left behind  *)
(* for a later collective.                                                 *)
AllFinish ==
    <>(/\ \A p \in Procs : call[p] = NCalls + 1
       /\ \A e \in DOMAIN chan : chan[e] = <<>>)

=============================================================================
