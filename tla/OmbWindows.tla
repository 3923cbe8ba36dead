----------------------------- MODULE OmbWindows -----------------------------
(***************************************************************************)
(* MPI windows, as the one-sided benchmarks use them, on top of the frame  *)
(* of OmbRun.                                                              *)
(*                                                                         *)
(* An operation is issued at its origin and takes place at its target some *)
(* time later.  How long the origin waits for that depends on the          *)
(* synchronisation call: MPI_Win_unlock, flush and fence wait until the    *)
(* operations have taken place; MPI_Win_flush_local, MPI_Win_complete and  *)
(* MPI_Wait on a request only until their buffers may be used again.  That *)
(* may be at once if MPI buffers (eager) and nothing is fetched.  With     *)
(* buffers, MPI_Win_start need not wait for the matching post either; the  *)
(* operations of that epoch then wait for it.                              *)
(*                                                                         *)
(* In the MPI programs at most two ranks access windows, and only rank 0   *)
(* locks them, so locks never wait and a rank posts only to its peer.  The *)
(* programs for DART, OpenSHMEM, UPC and UPC++ have no epochs: the memory  *)
(* of a rank can be accessed at any time.                                  *)
(***************************************************************************)
EXTENDS OmbRun

VARIABLES
  access,      \* access[r]: the access epoch rank r has open, or "none"
  exposed,     \* exposed[r]: is an exposure epoch open on r?
  posted,      \* posted[r]: how many exposure epochs r has posted
  started,     \* started[r]: how many access epochs r has started
  pending,     \* pending[r]: the operations of r that have not taken place
  disp_remote  \* disp_remote[r]: where that variable points on rank r

epochs  == <<access, exposed, posted, started>>
windows == <<epochs, pending, disp_remote>>
frame   == <<launch, inside, options, messages, gathering>>

-----------------------------------------------------------------------------
(***************************************************************************)
(* The calls.  The displacement of an operation is 0 (offset), an entry    *)
(* disp_remote[target] of the table, or the pointer disp_remote itself,    *)
(* into which some programs receive an address.                            *)
(***************************************************************************)
Access(kind, target, disp) ==
  [op |-> "access", kind |-> kind, peer |-> target, tag |-> 0, disp |-> disp,
   set |-> Keeping, at_skip |-> FALSE, measured |-> FALSE]

Lock       == Do("lock", "")
Unlock     == Do("unlock", "")
Flush      == Do("flush", "")
FlushLocal == Do("flush_local", "")  \* also MPI_Wait for a request
Post       == Do("post", "")
WinWait    == Do("win_wait", "")
EndEpoch   == Do("complete", "")
WinStart(target) == [Do("start_epoch", "") EXCEPT !.peer = target]

\* MPI_Win_fence ends an epoch of everybody and starts the next one.
Fence == <<Flush, Call("fence")>>

\* A barrier that also completes the operations of those who call it.
FencedBarrier == <<Flush, Barrier>>

Table                   == Do("table", "")
RecvAddress(peer, tag)  == Recv(peer, tag, "address")
                             \o <<[Do("address", "") EXCEPT !.peer = peer]>>

\* Addresses.
Base(r)    == <<"window", r>>
TableOf(r) == <<"table", r>>
Null(r)    == <<"null", r>>

\* The memory an operation of rank r is about to touch.
Lands(r) ==
  CASE Op(r).disp = "offset"  -> Base(Op(r).peer)
    [] Op(r).disp = "pointer" -> disp_remote[r]
    [] Op(r).disp = "entry"   ->
         IF disp_remote[r] = TableOf(r) THEN Base(Op(r).peer) ELSE Null(r)

\* Operations that bring something back.
Fetching == {"get", "get_accumulate", "compare_and_swap", "fetch_and_op",
             "fadd", "finc", "cswap", "swap"}

LocallyComplete(r) ==
  \A n \in DOMAIN pending[r] : eager /\ pending[r][n].kind \notin Fetching

-----------------------------------------------------------------------------
WinInit ==
  /\ Init
  /\ access = [r \in Ranks |-> "none"]
  /\ exposed = [r \in Ranks |-> FALSE]
  /\ posted = [r \in Ranks |-> 0]
  /\ started = [r \in Ranks |-> 0]
  /\ pending = [r \in Ranks |-> <<>>]
  /\ disp_remote = [r \in Ranks |-> Null(r)]

\* Rank r executes a synchronisation call or another of this module.
Perform(r, op) == At(r, op) /\ GoOn(r) /\ Tick(r) /\ UNCHANGED <<frame, t_start, timer>>

Issue(r) ==
  /\ Perform(r, "access")
  /\ pending' = [pending EXCEPT ![r] = Append(@,
       [target |-> Op(r).peer, lands |-> Lands(r), kind |-> Op(r).kind,
        size |-> at[r].size, iter |-> at[r].iter,
        epoch |-> IF access[r] = "start" THEN started[r] ELSE 0])]
  /\ UNCHANGED <<epochs, disp_remote>>

\* The target has posted the exposure epoch that the operation waits for.
Exposed(o) == o.epoch <= posted[o.target]

TakePlace(r, n) ==
  /\ Exposed(pending[r][n])
  /\ pending' = [pending EXCEPT ![r] = Without(@, n)]
  /\ UNCHANGED <<vars, epochs, disp_remote>>

AcquireLock(r) ==
  /\ Perform(r, "lock")
  /\ access' = [access EXCEPT ![r] = "lock"]
  /\ UNCHANGED <<exposed, posted, started, pending, disp_remote>>

ReleaseLock(r) ==
  /\ Perform(r, "unlock")
  /\ pending[r] = <<>>
  /\ access' = [access EXCEPT ![r] = "none"]
  /\ UNCHANGED <<exposed, posted, started, pending, disp_remote>>

FlushAll(r) ==
  /\ Perform(r, "flush")
  /\ pending[r] = <<>>
  /\ UNCHANGED windows

FlushBuffers(r) ==
  /\ Perform(r, "flush_local")
  /\ LocallyComplete(r)
  /\ UNCHANGED windows

PostEpoch(r) ==
  /\ Perform(r, "post")
  /\ posted' = [posted EXCEPT ![r] = @ + 1]
  /\ exposed' = [exposed EXCEPT ![r] = TRUE]
  /\ UNCHANGED <<access, started, pending, disp_remote>>

StartEpoch(r) ==
  /\ Perform(r, "start_epoch")
  /\ eager \/ posted[Op(r).peer] > started[r]
  /\ started' = [started EXCEPT ![r] = @ + 1]
  /\ access' = [access EXCEPT ![r] = "start"]
  /\ UNCHANGED <<exposed, posted, pending, disp_remote>>

CompleteEpoch(r) ==
  /\ Perform(r, "complete")
  /\ LocallyComplete(r)
  /\ access' = [access EXCEPT ![r] = "none"]
  /\ UNCHANGED <<exposed, posted, started, pending, disp_remote>>

\* Rank q has completed the epoch that r has exposed its window for.
HasCompleted(q, r) ==
  started[q] > posted[r] \/ (started[q] = posted[r] /\ access[q] # "start")

WaitEpoch(r) ==
  /\ Perform(r, "win_wait")
  /\ \A q \in Ranks \ {r} :
       /\ HasCompleted(q, r)
       /\ \A n \in DOMAIN pending[q] : pending[q][n].epoch > posted[r]
  /\ exposed' = [exposed EXCEPT ![r] = FALSE]
  /\ UNCHANGED <<access, posted, started, pending, disp_remote>>

\* disp_remote = malloc(...), filled in by MPI_Allgather.
KeepTable(r) ==
  /\ Perform(r, "table")
  /\ disp_remote' = [disp_remote EXCEPT ![r] = TableOf(r)]
  /\ UNCHANGED <<epochs, pending>>

\* MPI_Recv(&disp_remote, ...): the address overwrites the pointer.
KeepAddress(r) ==
  /\ Perform(r, "address")
  /\ disp_remote' = [disp_remote EXCEPT ![r] = Base(Op(r).peer)]
  /\ UNCHANGED <<epochs, pending>>

-----------------------------------------------------------------------------
WinStep(r) ==
  \/ Issue(r)
  \/ AcquireLock(r)
  \/ ReleaseLock(r)
  \/ FlushAll(r)
  \/ FlushBuffers(r)
  \/ PostEpoch(r)
  \/ StartEpoch(r)
  \/ CompleteEpoch(r)
  \/ WaitEpoch(r)
  \/ KeepTable(r)
  \/ KeepAddress(r)

WinNext ==
  \/ Next /\ UNCHANGED windows
  \/ \E r \in Ranks : WinStep(r)
  \/ \E r \in Ranks : \E n \in DOMAIN pending[r] : TakePlace(r, n)

WinSpec == WinInit /\ [][WinNext]_<<vars, windows>> /\ WF_<<vars, windows>>(WinNext)

-----------------------------------------------------------------------------
WinTypeOK ==
  /\ TypeOK
  /\ access \in [Ranks -> {"none", "lock", "start"}]
  /\ exposed \in [Ranks -> BOOLEAN]
  /\ posted \in [Ranks -> Nat]
  /\ started \in [Ranks -> Nat]
  /\ \A r \in Ranks :
       /\ disp_remote[r] \in {Null(r), TableOf(r)} \cup {Base(q) : q \in Ranks}
       /\ \A n \in DOMAIN pending[r] :
            /\ pending[r][n].target \in Ranks
            /\ pending[r][n].size \in 1 .. benchmark.sizes
            /\ pending[r][n].epoch \in 0 .. started[r]

(***************************************************************************)
(* What MPI_Put, MPI_Accumulate and the others touch is the memory that    *)
(* the target rank has in the window (README: -w dynamic, use              *)
(* MPI_Win_create_dynamic to create an MPI Window object).                 *)
(***************************************************************************)
AccessesHitTheWindow ==
  \A r \in Ranks : \A n \in DOMAIN pending[r] :
    pending[r][n].lands = Base(pending[r][n].target)
=============================================================================
