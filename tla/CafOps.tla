------------------------------- MODULE CafOps --------------------------------
(***************************************************************************)
(* The statements that the ping-pong and halo benchmarks of the two CAF    *)
(* suites are made of, and cafcore's procedures as sequences of them.      *)
(*                                                                         *)
(* A statement is a record; op names it.  The array x of an image is a     *)
(* function on the cells that are allocated.  A co-indexed assignment and  *)
(* a copy_async start a set of copies, each from a cell of one image to a  *)
(* cell of another; they are over when "complete" is.                      *)
(***************************************************************************)
EXTENDS Integers, Sequences

Statement(op) == [op |-> op]

Only(condition, statements) == IF condition THEN statements ELSE <<>>

SyncAll            == Statement("sync all")
SyncImages(images) == [op |-> "sync images", images |-> images]
StartTimer         == Statement("start timer")
StopTimer          == Statement("stop timer")

\* x(DOMAIN values) = values
Assign(values) == [op |-> "assign", values |-> values]
Zero(size)     == Assign([i \in 1 .. size |-> 0])

\* Allocation is collective: no image goes on before all have allocated.
Allocate(size) == <<[op |-> "allocate", size |-> size], SyncAll>>
Deallocate     == <<SyncAll, [op |-> "allocate", size |-> 0]>>

Copy(from, src, to, dst) == [from |-> from, src |-> src, to |-> to, dst |-> dst]
Transfer(copies)         == [op |-> "transfer", copies |-> copies]
Complete                 == Statement("complete")

\* MPI_Send of cells to an image, and the MPI_Recv of that.
Send(to, cells) ==
  <<[op |-> "send", to |-> to, cells |-> cells], [op |-> "sent", to |-> to]>>
Recv(from) == <<[op |-> "recv", from |-> from]>>

-----------------------------------------------------------------------------
\* A pattern of access: count blocks of blksize cells, stride apart.
Block(shape) ==
  {i * shape.stride + b : i \in 0 .. shape.count - 1, b \in 1 .. shape.blksize}
Gaps(shape) ==
  {i * shape.stride + b :
     i \in 0 .. shape.count - 1, b \in shape.blksize + 1 .. shape.stride}

Ndata(shape) == shape.count * shape.blksize

\* cafset fills the blocks with value and the rest of the array with 0.
Filled(size, shape, value) ==
  Assign([i \in 1 .. size |-> IF i \in Block(shape) THEN value ELSE 0])

CafSet(port, size, shape, value, docheck) ==
  Only(docheck \/ port = "dash", <<Filled(size, shape, value)>>)

\* What cafcheck expects to read; kept: earlier failures are remembered.
Expect(wanted, kept) == [op |-> "check", wanted |-> wanted, kept |-> kept]
ExpectData           == Statement("check data")

\* Mutant: only the first cell is looked at.
FortranCafCheckFirst(shape, value, docheck) ==
  <<IF docheck THEN Expect([i \in {1} |-> value], FALSE) ELSE ExpectData>>

FortranCafCheck(shape, value, docheck) ==
  <<IF docheck
    THEN Expect([i \in Block(shape) \cup Gaps(shape) |->
                   IF i \in Block(shape) THEN value ELSE 0], FALSE)
    ELSE ExpectData>>

DashCafCheck(shape, value, docheck) ==
  <<IF docheck THEN Expect([i \in Block(shape) |-> value], FALSE) ELSE ExpectData>>

\* With sync all an image that is not active stops; none is, see Active.
CafDoSync(cafsynctype, active, neighbours) ==
  CASE cafsynctype = "all"    -> <<SyncAll>>
    [] cafsynctype = "pt2pt"  -> Only(active, <<SyncImages(neighbours)>>)
    [] cafsynctype = "null"   -> <<>>

\* Mutant: the votes are read before all are in.
GandTooEarly(docheck) ==
  Only(docheck, <<Statement("vote"), Statement("tally"), SyncAll, Statement("exit")>>)

\* if (docheck) gcheck = gand(lcheck), then an exit from the loop if it is false.
Gand(docheck) ==
  Only(docheck, <<Statement("vote"), SyncAll, Statement("tally"), SyncAll,
                  Statement("exit")>>)

\* gcheck &= lcheck, then a return if it is false.
AndLocally(docheck) == Only(docheck, <<Statement("return")>>)

\* Mutant: each image keeps the time it has measured.
DbcastNothing(me, root) == <<SyncAll, SyncAll>>

Dbcast(me, root) ==
  Only(me = root, <<Statement("share")>>) \o <<SyncAll, Statement("learn"), SyncAll>>

-----------------------------------------------------------------------------
\* cafchecktime: the time of a trial against two thirds and four thirds of the target.
Durations == {"short", "about right", "long"}

LongEnough(port, time) ==
  IF port = "dash" THEN time = "long" ELSE time # "short"

AtLeastOne(i) == IF i < 1 THEN 1 ELSE i

\* Mutant: half of one repetition is none.
NextNrepHalved(port, time, nrep) ==
  IF time = "long" THEN nrep \div 2
  ELSE IF LongEnough(port, time) THEN nrep ELSE 2 * nrep

NextNrep(port, time, nrep) ==
  IF time = "long" THEN AtLeastOne(nrep \div 2)
  ELSE IF LongEnough(port, time) THEN nrep ELSE 2 * nrep
=============================================================================
