------------------------------ MODULE FileUtil ------------------------------
(***************************************************************************)
(* The line files of file_util/file_util.go: several callers create,       *)
(* write, read and remove one file by its path.                            *)
(*                                                                         *)
(* The functions keep nothing between calls; what they share is the file   *)
(* system (external).  A path names an inode, a directory or nothing; an   *)
(* open file is a descriptor on an inode that may have lost its name.  A   *)
(* file is a sequence of cells: a text, the beginning of one, a newline,   *)
(* or a hole of zeros.  fmt.Fprintln is one write, which the file system   *)
(* does atomically, or only in part when the disk is full.                 *)
(*                                                                         *)
(* Descriptors are few.  ReadLine never closes its file: the descriptor    *)
(* comes back when the garbage collector finds the os.File.                *)
(***************************************************************************)
EXTENDS SequencesExt, Integers, FiniteSets

CONSTANTS
  Procs,                   \* callers
  Texts,                   \* lines that ReadLine returns
  Blank, Comment,          \* a line of spaces, a line that begins with #
  Part, Newline, Hole,     \* the other cells
  Absent, Dir,             \* what a path is if not a file
  Requests,                \* the calls: [op |-> ..., lines |-> ...]
  InitialFiles,            \* what the path may be at first
  FdLimit,                 \* the descriptors the process may have
  BufferSize,              \* cells that one read of bufio.Reader fetches
  MaxCalls                 \* bound: the calls of a behaviour

LineCells == Texts \union {Blank, Comment}
Cells == LineCells \union {Part, Newline, Hole}
Ops == {"create", "append", "over", "read", "remove"}

ASSUME FileAssumption ==
  /\ Requests \subseteq [op : Ops, lines : Seq(LineCells)]
  /\ InitialFiles \subseteq Seq(Cells) \union {Absent, Dir}
  /\ Newline \notin LineCells
  /\ Absent # Dir /\ {Absent, Dir} \intersect (Nat \union Seq(Cells)) = {}
  /\ IsFiniteSet(Procs)
  /\ FdLimit \in Nat /\ BufferSize \in Nat \ {0} /\ MaxCalls \in Nat

\* A caller holds at most one inode and remembers one, the path names one.
Inodes == 1 .. 2 * Cardinality(Procs) + 1
NoInode == 0

VARIABLES
  path,    \* Absent, Dir or the inode
  data,    \* the cells of each inode
  caller,  \* where each call is, with its locals
  leaked,  \* descriptors that ReadLine left open
  calls,   \* the calls that have begun
  ghost    \* what the properties remember of each call

vars == <<path, data, caller, leaked, calls, ghost>>

\* pc: the next step; lines: those still to be written; inode, append, off:
\* the open file; got: the cells read; ok: no error is returned.
Idle == [pc |-> "idle", op |-> "none", lines |-> <<>>, inode |-> NoInode,
         append |-> FALSE, off |-> 0, got |-> <<>>, ok |-> TRUE]

\* What the path holds.
Holds == IF path \in Inodes THEN data[path] ELSE path

\* alone: nobody else was calling and nothing failed; held, at: the path when
\* the call began; quiet: since the call has its file, that was neither
\* truncated nor written otherwise than by whole lines at its end; base: the
\* file when it was opened; text: the lines of the request.
NoGhost == [alone |-> FALSE, at |-> Absent, held |-> Absent, text |-> <<>>,
            quiet |-> FALSE, base |-> <<>>]

NotAlone(g) == [g EXCEPT !.alone = FALSE, !.held = Absent]
NotQuiet(g) == [g EXCEPT !.quiet = FALSE, !.base = <<>>]

At(p, pc) == caller[p].pc = pc
Becomes(p, c) == caller' = [caller EXCEPT ![p] = c]
Goes(p, pc) == Becomes(p, [caller[p] EXCEPT !.pc = pc])
Returns(p, ok) == Becomes(p, [caller[p] EXCEPT !.pc = "return", !.ok = ok])

Init ==
  /\ \E f \in InitialFiles :
       /\ path = IF f \in {Absent, Dir} THEN f ELSE 1
       /\ data = [i \in Inodes |-> IF i = 1 /\ f \notin {Absent, Dir} THEN f ELSE <<>>]
  /\ caller = [p \in Procs |-> Idle]
  /\ leaked = 0
  /\ calls = 0
  /\ ghost = [p \in Procs |-> NoGhost]

Holders == {p \in Procs : caller[p].inode # NoInode}
FdsLeft == Cardinality(Holders) + leaked < FdLimit

-----------------------------------------------------------------------------
(* A call begins.                                                          *)

FirstStep(op) == CASE op \in {"create", "read"} -> "stat"
                   [] op \in {"append", "over"} -> "open"
                   [] OTHER                     -> "remove"

Begin(p, r) ==
  /\ At(p, "idle")
  /\ calls < MaxCalls
  /\ calls' = calls + 1
  /\ Becomes(p, [Idle EXCEPT !.pc = FirstStep(r.op), !.op = r.op, !.lines = r.lines])
  /\ ghost' = [q \in Procs |->
       IF q # p THEN NotAlone(ghost[q])
       ELSE LET g == [alone |-> TRUE, at |-> IF r.op = "create" THEN path ELSE Absent,
                      held |-> Holds, text |-> r.lines, quiet |-> TRUE, base |-> <<>>]
            IN IF leaked < FdLimit /\ \A o \in Procs : At(o, "idle") THEN g ELSE NotAlone(g)]
  /\ UNCHANGED <<path, data, leaked>>

\* Seeded fault: CreateFile does not mind what os.Stat finds.
StatIgnored(p) ==
  /\ At(p, "stat")
  /\ path # Absent
  /\ Goes(p, IF caller[p].op = "create" THEN "create" ELSE "open")
  /\ UNCHANGED <<path, data, leaked, calls, ghost>>

\* os.Stat finds something: CreateFile returns an error, ReadLine goes on.
StatFinds(p) ==
  /\ At(p, "stat")
  /\ path # Absent
  /\ IF caller[p].op = "create" THEN Returns(p, FALSE) ELSE Goes(p, "open")
  /\ UNCHANGED <<path, data, leaked, calls, ghost>>

\* os.Stat finds nothing: the other way round.
StatFindsNothing(p) ==
  /\ At(p, "stat")
  /\ path = Absent
  /\ IF caller[p].op = "create" THEN Goes(p, "create") ELSE Returns(p, FALSE)
  /\ UNCHANGED <<path, data, leaked, calls, ghost>>

-----------------------------------------------------------------------------
(* Opening.                                                                *)

\* The next step of a call that has its file.
WithFile(op) == CASE op = "create" -> "return" [] op = "read" -> "read" [] OTHER -> "write"

Opens(p, i, append) ==
  Becomes(p, [caller[p] EXCEPT !.inode = i, !.append = append,
                               !.pc = WithFile(caller[p].op)])

\* What the calls remember when p opens inode i, emptied or as it is.
Remember(p, i, emptied) ==
  ghost' = [q \in Procs |->
    IF q = p THEN [ghost[p] EXCEPT !.base = IF emptied THEN <<>> ELSE data[i]]
    ELSE IF emptied /\ caller[q].inode = i THEN NotQuiet(ghost[q]) ELSE ghost[q]]

\* Seeded fault: O_TRUNC is forgotten.
OpenNotTruncating(p) ==
  /\ At(p, "open") /\ caller[p].op # "read"
  /\ FdsLeft /\ path \in Inodes
  /\ Opens(p, path, caller[p].op = "append")
  /\ Remember(p, path, FALSE)
  /\ UNCHANGED <<path, data, leaked, calls>>

\* os.OpenFile with O_APPEND or with O_TRUNC.
OpenExisting(p) ==
  /\ At(p, "open") /\ caller[p].op # "read"
  /\ FdsLeft /\ path \in Inodes
  /\ Opens(p, path, caller[p].op = "append")
  /\ Remember(p, path, caller[p].op = "over")
  /\ data' = IF caller[p].op = "over" THEN [data EXCEPT ![path] = <<>>] ELSE data
  /\ UNCHANGED <<path, leaked, calls>>

\* Whatever the reason, the call falls back on os.Create.
OpenFails(p) ==
  /\ At(p, "open") /\ caller[p].op # "read"
  /\ ~ (FdsLeft /\ path \in Inodes)
  /\ Goes(p, "create")
  /\ UNCHANGED <<path, data, leaked, calls, ghost>>

\* os.Open; it opens a directory, too.
OpenToRead(p) ==
  /\ At(p, "open") /\ caller[p].op = "read"
  /\ IF FdsLeft /\ path # Absent
     THEN /\ Opens(p, path, FALSE)
          /\ IF path = Dir THEN UNCHANGED ghost ELSE Remember(p, path, FALSE)
     ELSE Returns(p, FALSE) /\ UNCHANGED ghost
  /\ UNCHANGED <<path, data, leaked, calls>>

Known == {path} \union {caller[q].inode : q \in Procs} \union {ghost[q].at : q \in Procs}
Fresh == CHOOSE i \in Inodes \ Known : TRUE

\* os.Create empties the file or makes one.  It opens without O_APPEND.
Create(p) ==
  /\ At(p, "create")
  /\ FdsLeft /\ path # Dir
  /\ LET i == IF path = Absent THEN Fresh ELSE path IN
     /\ path' = i
     /\ data' = [data EXCEPT ![i] = <<>>]
     /\ Opens(p, i, FALSE)
     /\ Remember(p, i, TRUE)
  /\ UNCHANGED <<leaked, calls>>

\* Seeded fault: the error of os.Create is dropped.
CreateFailsAnyway(p) ==
  /\ At(p, "create")
  /\ ~ (FdsLeft /\ path # Dir)
  /\ Goes(p, WithFile(caller[p].op))
  /\ UNCHANGED <<path, data, leaked, calls, ghost>>

CreateFails(p) ==
  /\ At(p, "create")
  /\ ~ (FdsLeft /\ path # Dir)
  /\ Returns(p, FALSE)
  /\ UNCHANGED <<path, data, leaked, calls, ghost>>

-----------------------------------------------------------------------------
(* WriteIntoFile's loop.  Errors of the writes are ignored.                *)

\* The cells of a file once s is written after the first off of them.
Written(cells, off, s) ==
  [k \in 1 .. Max({Len(cells), off + Len(s)}) |->
     IF k \in off + 1 .. off + Len(s) THEN s[k - off]
     ELSE IF k <= Len(cells) THEN cells[k] ELSE Hole]

\* Seeded fault: as if the file had been opened without O_APPEND.
PutAtOffset(p, s) ==
  LET i == caller[p].inode
  IN /\ data' = [data EXCEPT ![i] = Written(data[i], caller[p].off, s)]
     /\ Becomes(p, [caller[p] EXCEPT !.lines = Tail(@), !.off = @ + Len(s)])

\* One write: at the end of the file or at the descriptor's offset.
Put(p, s) ==
  LET i == caller[p].inode
      off == IF caller[p].append THEN Len(data[i]) ELSE caller[p].off
  IN /\ data' = [data EXCEPT ![i] = Written(data[i], off, s)]
     /\ Becomes(p, [caller[p] EXCEPT !.lines = Tail(@),
                                     !.off = IF caller[p].append THEN 0 ELSE off + Len(s)])

\* What a write of p means to the calls that have the same file open.
Disturbs(p, harm(_)) ==
  ghost' = [q \in Procs |->
    IF caller[q].inode = caller[p].inode /\ harm(q)
    THEN NotAlone(NotQuiet(ghost[q])) ELSE ghost[q]]

\* fmt.Fprintln.
WriteLine(p) ==
  /\ At(p, "write") /\ caller[p].lines # <<>>
  /\ Put(p, <<Head(caller[p].lines), Newline>>)
  /\ Disturbs(p, LAMBDA q : q # p /\ ~ caller[p].append)
  /\ UNCHANGED <<path, leaked, calls>>

\* The disk is full: the line is cut or lost.  Readers only see less.
WriteFails(p) ==
  /\ At(p, "write") /\ caller[p].lines # <<>>
  /\ \E s \in {<<>>, <<Part>>} : Put(p, s)
  /\ Disturbs(p, LAMBDA q : caller[q].op # "read" \/ ~ caller[p].append)
  /\ UNCHANGED <<path, leaked, calls>>

EndOfLines(p) ==
  /\ At(p, "write") /\ caller[p].lines = <<>>
  /\ Returns(p, TRUE)
  /\ UNCHANGED <<path, data, leaked, calls, ghost>>

-----------------------------------------------------------------------------
(* ReadLine's loop.                                                        *)

\* The cells still ahead; there are none in a directory.
Ahead(p) ==
  IF caller[p].inode = Dir THEN <<>>
  ELSE SubSeq(data[caller[p].inode], caller[p].off + 1, Len(data[caller[p].inode]))

\* Seeded fault: the offset moves by a buffer, however little there was.
FillByBuffer(p) ==
  /\ At(p, "read") /\ Ahead(p) # <<>>
  /\ Becomes(p, [caller[p] EXCEPT
       !.got = @ \o SubSeq(Ahead(p), 1, Min({Len(Ahead(p)), BufferSize})),
       !.off = @ + BufferSize])
  /\ UNCHANGED <<path, data, leaked, calls, ghost>>

\* bufio fills its buffer with what there is.
Fill(p) ==
  LET next == SubSeq(Ahead(p), 1, Min({Len(Ahead(p)), BufferSize})) IN
  /\ At(p, "read") /\ Ahead(p) # <<>>
  /\ Becomes(p, [caller[p] EXCEPT !.got = @ \o next, !.off = @ + Len(next)])
  /\ UNCHANGED <<path, data, leaked, calls, ghost>>

\* strings.TrimSpace.
Trimmed(s) ==
  LET ink == {k \in DOMAIN s : s[k] # Blank}
  IN IF ink = {} THEN <<>> ELSE SubSeq(s, Min(ink), Max(ink))

Wanted(line) == line # <<>> /\ line[1] # Comment

\* The line that the newline at place e ends.
LineBefore(cells, e) ==
  LET before == {k \in 1 .. (e - 1) : cells[k] = Newline}
  IN Trimmed(SubSeq(cells, Max(before \union {0}) + 1, e - 1))

\* The lines that end with a newline, without blank ones and comments.
Lines(cells) ==
  LET ends == {e \in DOMAIN cells : cells[e] = Newline /\ Wanted(LineBefore(cells, e))}
      End(k) == CHOOSE e \in ends : Cardinality({d \in ends : d <= e}) = k
  IN [k \in 1 .. Cardinality(ends) |-> LineBefore(cells, End(k))]

\* io.EOF, or the error of reading a directory.
EndOfFile(p) ==
  /\ At(p, "read") /\ Ahead(p) = <<>>
  /\ Becomes(p, [caller[p] EXCEPT !.pc = "return", !.ok = caller[p].inode # Dir,
                                  !.got = Lines(@)])
  /\ UNCHANGED <<path, data, leaked, calls, ghost>>

-----------------------------------------------------------------------------

\* An inode without a name and without a descriptor is gone.
Remaining(name, holders) ==
  [i \in Inodes |-> IF i = name \/ \E q \in holders : caller[q].inode = i
                    THEN data[i] ELSE <<>>]

\* RemoveFile; os.Remove takes an empty directory, too.
RemoveFile(p) ==
  /\ At(p, "remove")
  /\ path' = Absent
  /\ Returns(p, path # Absent)
  /\ data' = Remaining(Absent, Procs)
  /\ UNCHANGED <<leaked, calls, ghost>>

\* The caller has the result.  A deferred Close gives the descriptor back;
\* ReadLine has none.
Return(p) ==
  /\ At(p, "return")
  /\ Becomes(p, Idle)
  /\ ghost' = [ghost EXCEPT ![p] = NoGhost]
  /\ leaked' = IF caller[p].op = "read" /\ p \in Holders THEN leaked + 1 ELSE leaked
  /\ data' = Remaining(path, Procs \ {p})
  /\ UNCHANGED <<path, calls>>

\* The finalizer of an os.File that ReadLine left open.
Finalize ==
  /\ leaked > 0
  /\ leaked' = leaked - 1
  /\ UNCHANGED <<path, data, caller, calls, ghost>>

Open(p) == OpenExisting(p) \/ OpenFails(p) \/ OpenToRead(p) \/ Create(p) \/ CreateFails(p)
Loop(p) == WriteLine(p) \/ WriteFails(p) \/ EndOfLines(p) \/ Fill(p) \/ EndOfFile(p)

Call(p) ==
  \/ \E r \in Requests : Begin(p, r)
  \/ StatFinds(p) \/ StatFindsNothing(p)
  \/ Open(p) \/ Loop(p)
  \/ RemoveFile(p) \/ Return(p)

Next == Finalize \/ \E p \in Procs : Call(p)

Spec == Init /\ [][Next]_vars

-----------------------------------------------------------------------------
(* Properties.                                                             *)

PCs == {"idle", "stat", "open", "create", "write", "read", "remove", "return"}

Callers ==
  [pc : PCs, op : Ops \union {"none"}, lines : Seq(LineCells),
   inode : Inodes \union {NoInode, Dir}, append : BOOLEAN, off : Nat,
   got : Seq(Cells \union Seq(Cells)), ok : BOOLEAN]

Ghosts ==
  [alone : BOOLEAN, at : Inodes \union {Absent, Dir},
   held : Seq(Cells) \union {Absent, Dir}, text : Seq(LineCells),
   quiet : BOOLEAN, base : Seq(Cells)]

TypeOK ==
  /\ path \in Inodes \union {Absent, Dir}
  /\ data \in [Inodes -> Seq(Cells)]
  /\ caller \in [Procs -> Callers]
  /\ \A p \in Procs : caller[p].pc \in {"write", "read"} => caller[p].inode # NoInode
  /\ leaked \in Nat
  /\ Cardinality(Holders) + leaked <= FdLimit
  /\ calls \in 0 .. MaxCalls
  /\ ghost \in [Procs -> Ghosts]

\* The lines as they lie in a file.
Flat(text) ==
  [k \in 1 .. 2 * Len(text) |-> IF k % 2 = 1 THEN text[(k + 1) \div 2] ELSE Newline]

\* Is s what is left of t when some of it is taken out?
IsWithin(s, t) ==
  \E f \in [DOMAIN s -> DOMAIN t] :
    /\ \A i, j \in DOMAIN s : i < j => f[i] < f[j]
    /\ \A i \in DOMAIN s : s[i] = t[f[i]]

\* Callers that append to one file at once keep each other's lines and what
\* was there: its old cells come first, and the lines a call has written follow
\* whole and in their order, whoever writes in between.
AppendersShare ==
  \A p \in Procs :
    LET c == caller[p]
        text == ghost[p].text
        sent == SubSeq(text, 1, Len(text) - Len(c.lines))
    IN c.op = "append" /\ c.append /\ ghost[p].quiet =>
         /\ IsPrefix(ghost[p].base, data[c.inode])
         /\ LET added == SubSeq(data[c.inode], Len(ghost[p].base) + 1, Len(data[c.inode]))
            IN /\ \A k \in DOMAIN added : (k % 2 = 0) = (added[k] = Newline)
               /\ IsWithin(Flat(sent), added)

\* A ReadLine during which others only append returns the whole lines that
\* the file held at one moment of the call: never a part of a line, nothing
\* twice, and all that was there when it began.
ReadsOneMoment ==
  \A p \in Procs :
    LET c == caller[p] IN
    At(p, "return") /\ c.op = "read" /\ c.ok /\ ghost[p].quiet =>
      \E n \in Len(ghost[p].base) .. Len(data[c.inode]) :
        c.got = Lines(SubSeq(data[c.inode], 1, n))

File(h) == h \notin {Absent, Dir}

\* What each function does to a path that holds h, told by its result.
Promise(p, h) ==
  LET c == caller[p] text == Flat(ghost[p].text) IN
  CASE c.op = "create" -> c.ok = (h = Absent) /\ Holds = IF c.ok THEN <<>> ELSE h
    [] c.op = "append" -> /\ c.ok = (h # Dir)
                          /\ Holds = CASE h = Absent -> text [] h = Dir -> Dir [] OTHER -> h \o text
    [] c.op = "over"   -> c.ok = (h # Dir) /\ Holds = IF c.ok THEN text ELSE Dir
    [] c.op = "read"   -> c.ok = File(h) /\ Holds = h /\ (c.ok => c.got = Lines(h))
    [] c.op = "remove" -> c.ok = (h # Absent) /\ Holds = Absent

\* A call that no other overlaps, that finds a descriptor and whose writes
\* succeed does to the file what it is called for, and says so; its fallbacks
\* and checks make no difference then.
AloneDoesIt ==
  \A p \in Procs : At(p, "return") /\ ghost[p].alone => Promise(p, ghost[p].held)

\* CreateFile never empties a file that was there when it was called; what it
\* may empty is one that was made since its os.Stat.
CreateSparesTheOld ==
  [][\A p \in Procs :
       Create(p) /\ caller[p].op = "create" /\ ghost[p].at \in Inodes
         => data'[ghost[p].at] = data[ghost[p].at]]_vars

\* openToAppend opens for appending ("以追加的方式打开"): no step of a call
\* that appends takes anything out of the file.
AppendKeeps ==
  [][\A p \in Procs :
       Open(p) /\ caller[p].op = "append"
         => \A i \in Inodes : IsPrefix(data[i], data'[i])]_vars
=============================================================================
