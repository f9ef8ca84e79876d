------------------------------- MODULE HashChain -------------------------------
(***************************************************************************)
(* persistence.HashChainLog: an append-only file of JSON lines shared by   *)
(* several processes, each with a log of its own in memory.  A record's    *)
(* hash stands for the record: it names the hash of its predecessor.  The  *)
(* file is written byte by byte, so that readers, failed writes and        *)
(* crashes see lines that are not whole.  Nobody tampers with the file.    *)
(***************************************************************************)
EXTENDS Naturals, Sequences, SequencesExt

CONSTANTS Proc,        \* processes with a HashChainLog on the file
          MaxRecords   \* bound: no append beyond that many records

ASSUME ChainAssumption == MaxRecords \in Nat /\ "nobody" \notin Proc

VARIABLES
    file,      \* the lines: a record and whether its text is "whole",
               \* "unended" (only the newline is missing), "torn" (cut off)
               \* or "garbled" (two texts on one line)
    holder,    \* who holds the flock
    made,      \* records built so far
    entries,   \* the hashes in each log's memory
    pc,        \* how far each process is with append
    mine,      \* the record it appends, and last_line_no
    acked,     \* records whose append returned (ghost)
    failed     \* records whose append raised once they were built (ghost)

vars == <<file, holder, made, entries, pc, mine, acked, failed>>

Genesis == 0
Nobody == "nobody"
Blank == [id |-> Genesis, prev |-> Genesis, lines |-> 0]
Line(r, form) == [id |-> r.id, prev |-> r.prev, form |-> form]
Garbage(form) == [id |-> Genesis, prev |-> Genesis, form |-> form]

Ended(l) == l.form \in {"whole", "garbled"}
Readable(l) == l.form \in {"whole", "unended"}
Damaged == \E i \in DOMAIN file : ~ Readable(file[i])

(* Writing at the end of the file: on a line of its own, or behind what    *)
(* was left there without a newline.                                       *)
Landed(l) ==
    IF file # <<>> /\ ~ Ended(Last(file))
    THEN Append(Front(file), Garbage(IF Ended(l) THEN "garbled" ELSE "torn"))
    ELSE Append(file, l)

(* The rest of the text of a line whose beginning has been written. *)
Completed(r, form) ==
    IF file # <<>> /\ Last(file) = Line(r, "torn")
    THEN Append(Front(file), Line(r, form))
    ELSE Landed(Garbage(IF form = "whole" THEN "garbled" ELSE "torn"))

(* The newline alone: an empty line is skipped by every reader. *)
NewLine(r) ==
    IF Last(file) = Line(r, "unended") THEN Append(Front(file), Line(r, "whole"))
    ELSE IF Ended(Last(file)) THEN file ELSE Landed(Garbage("garbled"))

(* load: all lines up to the first that is no JSON; verify then follows    *)
(* the links from the genesis hash on.                                     *)
Loaded ==
    LET n == CHOOSE n \in 0..Len(file) :
                 /\ \A i \in 1..n : Readable(file[i])
                 /\ n < Len(file) => ~ Readable(file[n + 1])
    IN  [i \in 1..n |-> file[i].id]

Linked ==
    \A i \in DOMAIN file :
        file[i].prev = IF i = 1 THEN Genesis ELSE file[i - 1].id
Verifies == ~ Damaged /\ Linked

Init ==
    /\ file = <<>> /\ holder = Nobody /\ made = 0
    /\ entries = [p \in Proc |-> <<>>] /\ pc = [p \in Proc |-> "down"]
    /\ mine = [p \in Proc |-> Blank]
    /\ acked = {} /\ failed = {}

Goto(p, l) == pc' = [pc EXCEPT ![p] = l]
Fails(p) == failed' = failed \cup {mine[p].id} /\ UNCHANGED acked

(* __init__ loads and verifies what is there, without the flock. *)
Open(p) ==
    /\ pc[p] = "down" /\ Verifies
    /\ entries' = [entries EXCEPT ![p] = Loaded]
    /\ Goto(p, "idle")
    /\ UNCHANGED <<file, holder, made, mine, acked, failed>>

(* Seeded faults: prev_hash comes from memory; unreadable lines are passed *)
(* over; the lines of the file are counted one short.                      *)
LockAndReadMemory(p) ==
    /\ pc[p] = "idle" /\ holder = Nobody /\ made < MaxRecords
    /\ ~ Damaged
    /\ mine' = [mine EXCEPT ![p] =
           [id |-> made + 1, lines |-> Len(file),
            prev |-> IF entries[p] = <<>> THEN Genesis ELSE Last(entries[p])]]
    /\ made' = made + 1 /\ holder' = p
    /\ Goto(p, "write")
    /\ UNCHANGED <<file, entries, acked, failed>>

LockAndReadTolerant(p) ==
    /\ pc[p] = "idle" /\ holder = Nobody /\ made < MaxRecords
    /\ LET good == SelectSeq(file, Readable)
       IN  mine' = [mine EXCEPT ![p] =
               [id |-> made + 1, lines |-> Len(file),
                prev |-> IF good = <<>> THEN Genesis ELSE Last(good).id]]
    /\ made' = made + 1 /\ holder' = p
    /\ Goto(p, "write")
    /\ UNCHANGED <<file, entries, acked, failed>>

(* append takes the flock and reads the whole file under it for the hash   *)
(* of its last record.  An unreadable line is a ReceiptIntegrityError:     *)
(* nothing is written.                                                     *)
LockAndRead(p) ==
    /\ pc[p] = "idle" /\ holder = Nobody /\ made < MaxRecords
    /\ ~ Damaged
    /\ mine' = [mine EXCEPT ![p] =
           [id |-> made + 1, lines |-> Len(file),
            prev |-> IF file = <<>> THEN Genesis ELSE Last(file).id]]
    /\ made' = made + 1 /\ holder' = p
    /\ Goto(p, "write")
    /\ UNCHANGED <<file, entries, acked, failed>>

(* write and flush, the flock held: the line appears,                      *)
BeginLine(p) ==
    /\ pc[p] = "write"
    /\ file' = Landed(Line(mine[p], "torn"))
    /\ Goto(p, "half")
    /\ UNCHANGED <<holder, made, entries, mine, acked, failed>>

(* it is whole and synced, and the flock is released.                      *)
EndLine(p) ==
    /\ pc[p] = "half"
    /\ file' = Completed(mine[p], "whole") /\ holder' = Nobody
    /\ Goto(p, "reflect")
    /\ UNCHANGED <<made, entries, mine, acked, failed>>

(* Seeded fault: the rest of a failed write is cut off at the length the   *)
(* file had under the flock, which has been released since.                *)
TruncateLate(p) ==
    /\ pc[p] \in {"retry all", "retry rest", "retry newline"}
    /\ file' = SubSeq(file, 1, mine[p].lines)
    /\ Goto(p, "idle")
    /\ UNCHANGED <<holder, made, entries, mine, acked, failed>>

(* Or the flush raises before, within or just short of the end of the      *)
(* line, or fsync raises behind it.  The flock is released, with the rest  *)
(* of the text still in the handle's buffer,                               *)
WriteFails(p) ==
    /\ \/ pc[p] = "write" /\ Goto(p, "retry all") /\ UNCHANGED file
       \/ pc[p] = "half" /\ Goto(p, "retry rest") /\ UNCHANGED file
       \/ /\ pc[p] = "half" /\ Goto(p, "retry newline")
          /\ file' = Completed(mine[p], "unended")
       \/ pc[p] = "half" /\ Goto(p, "idle") /\ file' = Completed(mine[p], "whole")
    /\ holder' = Nobody
    /\ Fails(p)
    /\ UNCHANGED <<made, entries, mine>>

(* and closing the handle flushes the buffer again, the flock free: either *)
(* it fails once more or the rest lands at the end the file has by now.    *)
CloseFlush(p) ==
    /\ \/ pc[p] \in {"retry all", "retry rest", "retry newline"} /\ UNCHANGED file
       \/ pc[p] = "retry all" /\ file' = Landed(Line(mine[p], "whole"))
       \/ pc[p] = "retry rest" /\ file' = Completed(mine[p], "whole")
       \/ pc[p] = "retry newline" /\ file' = NewLine(mine[p])
    /\ Goto(p, "idle")
    /\ UNCHANGED <<holder, made, entries, mine, acked, failed>>

(* Seeded fault: what siblings appended is not read. *)
ReflectOwn(p) ==
    /\ pc[p] = "reflect"
    /\ entries' = [entries EXCEPT ![p] = Append(@, mine[p].id)]
    /\ acked' = acked \cup {mine[p].id} /\ UNCHANGED failed
    /\ Goto(p, "idle")
    /\ UNCHANGED <<file, holder, made, mine>>

(* Reflect what is on disk, the flock free: a log that siblings have       *)
(* outrun loads the file again, which raises when it does not verify, be   *)
(* it that a sibling's line is half written.                               *)
Reflect(p) ==
    /\ pc[p] = "reflect"
    /\ IF mine[p].lines > Len(entries[p])
       THEN /\ entries' = [entries EXCEPT ![p] = Loaded]
            /\ IF Verifies THEN acked' = acked \cup {mine[p].id} /\ UNCHANGED failed
               ELSE Fails(p)
       ELSE /\ entries' = [entries EXCEPT ![p] = Append(@, mine[p].id)]
            /\ acked' = acked \cup {mine[p].id} /\ UNCHANGED failed
    /\ Goto(p, "idle")
    /\ UNCHANGED <<file, holder, made, mine>>

(* The process dies: the flock goes, a half-written line stays, up to      *)
(* whichever byte it had got.                                              *)
Crash(p) ==
    /\ pc[p] # "down"
    /\ \/ UNCHANGED file
       \/ pc[p] = "half" /\ file' = Completed(mine[p], "unended")
    /\ holder' = IF holder = p THEN Nobody ELSE holder
    /\ entries' = [entries EXCEPT ![p] = <<>>]
    /\ Goto(p, "down")
    /\ UNCHANGED <<made, mine, acked, failed>>

Next ==
    \E p \in Proc :
        \/ Open(p) \/ LockAndRead(p) \/ BeginLine(p) \/ EndLine(p)
        \/ WriteFails(p) \/ CloseFlush(p) \/ Reflect(p) \/ Crash(p)

Spec == Init /\ [][Next]_vars
------------------------------------------------------------------------------
(* verify finds that a record does not name the one before it. *)
Broken(i) ==
    /\ Readable(file[i]) /\ (i > 1 => Readable(file[i - 1]))
    /\ file[i].prev # IF i = 1 THEN Genesis ELSE file[i - 1].id

(* Writers of any number of processes never fork the chain: only a record  *)
(* whose append had raised, and which its handle flushed after all, can    *)
(* stand where verify finds a broken link.                                 *)
OnlyLateRecordsBreak ==
    \A i \in DOMAIN file : Broken(i) =>
        file[i].id \in failed \/ (i > 1 /\ file[i - 1].id \in failed)

(* Fail closed: behind an unreadable line no append ever returns but that  *)
(* of the one writer that had read the file before the damage was done.    *)
OneWriterOutrunsDamage ==
    \A i, j, k \in DOMAIN file :
        i < j /\ j < k /\ ~ Readable(file[i]) =>
            file[j].id \notin acked \/ file[k].id \notin acked

(* While the file verifies, what any log holds in memory is a prefix of    *)
(* it: verify() never vouches for a history the file does not have.        *)
ViewMatchesFile ==
    Verifies => \A p \in Proc : IsPrefix(entries[p], Loaded)
------------------------------------------------------------------------------
(* The records before the first line that is not whole. *)
Kept ==
    LET n == CHOOSE n \in 0..Len(file) :
                 /\ \A i \in 1..n : file[i].form = "whole"
                 /\ n < Len(file) => file[n + 1].form # "whole"
    IN  [i \in 1..n |-> file[i].id]

Abstract == INSTANCE AppendOnlyLog WITH Record <- 1..MaxRecords, log <- Kept

(* The file implements an append-only log, through failed writes, late     *)
(* flushes and crashes.                                                    *)
LogSpec == Abstract!Spec
==============================================================================
