------------------------------ MODULE ChainProofs ------------------------------
(***************************************************************************)
(* The hash-chained log, for any number of processes and records: what a   *)
(* step of one process does to the last line of the file, and what follows *)
(* for the links, for the logs in memory and for the abstract log.         *)
(***************************************************************************)
EXTENDS HashChain, SequenceTheorems, WellFoundedInduction, TLAPS

Forms == {"whole", "unended", "torn", "garbled"}
Lines == [id : Nat, prev : Nat, form : Forms]
Retrying == {"retry all", "retry rest", "retry newline"}
Busy == {"write", "half", "reflect"} \cup Retrying
Stages == {"down", "idle"} \cup Busy

ChainTypes ==
    /\ file \in Seq(Lines) /\ holder \in Proc \cup {Nobody} /\ made \in 0..MaxRecords
    /\ entries \in [Proc -> Seq(Nat)] /\ pc \in [Proc -> Stages]
    /\ mine \in [Proc -> [id : Nat, prev : Nat, lines : Nat]]
    /\ acked \subseteq Nat /\ failed \subseteq Nat

(* The flock is held from reading the file to the end of the line, and the *)
(* records that are being appended are all different.                      *)
Ids(n) == 1..n
Numbers ==
    /\ \A p \in Proc : pc[p] \in {"write", "half"} => holder = p
    /\ \A p \in Proc : pc[p] \in Busy => mine[p].id \in Ids(made) /\ mine[p].id \notin acked
    /\ \A p, q \in Proc :
           p # q /\ pc[p] \in Busy /\ pc[q] \in Busy => mine[p].id # mine[q].id
    /\ \A p \in Proc : pc[p] \in Retrying => mine[p].id \in failed
    /\ acked \subseteq Ids(made)

(* Each record stands on one line; the one that is being written, on the   *)
(* last, where its text has only begun; no unwritten one stands anywhere.  *)
Known == \A i \in DOMAIN file :
    file[i].id \in Ids(made) \/ (file[i].id = Genesis /\ ~ Readable(file[i]))
Distinct == \A i, j \in DOMAIN file :
    file[i].id = file[j].id /\ file[i].id # Genesis => i = j
Unwritten == \A p \in Proc : pc[p] \in {"write", "retry all"} =>
    \A i \in DOMAIN file : file[i].id # mine[p].id
Begun == \A p \in Proc : pc[p] \in {"half", "retry rest"} =>
    \A i \in DOMAIN file :
        file[i].id = mine[p].id => i = Len(file) /\ file[i] = Line(mine[p], "torn")
Nonempty == \A p \in Proc : pc[p] = "retry newline" => file # <<>>
Places == Known /\ Distinct /\ Unwritten /\ Begun /\ Nonempty

(* What a writer will name as its predecessor is what it will stand behind,*)
(* unless a late record or a damaged line has come between.                *)
Behind(f, n, prev, late) ==
    IF n = 0 THEN prev = Genesis
    ELSE ~ Readable(f[n]) \/ f[n].id = prev \/ f[n].id \in late
Written(p) == file # <<>> /\ file[Len(file)] = Line(mine[p], "torn")
Tails ==
    \A p \in Proc :
        /\ pc[p] = "write" => Behind(file, Len(file), mine[p].prev, failed)
        /\ pc[p] = "half" /\ Written(p) => Behind(file, Len(file) - 1, mine[p].prev, failed)

(* No record that came to its end stands behind a damaged line while       *)
(* another is under way, and no two do at any time.                        *)
Good == acked \cup {mine[p].id : p \in {q \in Proc : pc[q] = "reflect"}}
One(f, good) ==
    \A i, j, k \in DOMAIN f :
        i < j /\ j < k /\ ~ Readable(f[i]) => f[j].id \notin good \/ f[k].id \notin good
None(f, good) ==
    \A i, j \in DOMAIN f : i < j /\ ~ Readable(f[i]) => f[j].id \notin good
Outrun ==
    /\ One(file, Good)
    /\ \A p \in Proc : pc[p] \in {"write", "half"} => None(file, Good)

(* A file with a wrong link, or with a line that two texts share, will     *)
(* never verify again.  Until then a log has in memory what the file       *)
(* begins with, and an append knows the line it wrote.                     *)
Spoiled(f) == \E i \in DOMAIN f :
    f[i].id = Genesis \/ f[i].prev # IF i = 1 THEN Genesis ELSE f[i - 1].id
View(f, e) == Len(e) <= Len(f) /\ \A i \in 1..Len(e) : e[i] = f[i].id
Short(e, m) == Len(e) <= m.lines
AtWrite(f, m) ==
    m.lines <= Len(f) /\ m.prev = IF m.lines = 0 THEN Genesis ELSE f[m.lines].id
Torn(m) == Line(m, "torn")
AtHalf(f, m) == Len(f) = m.lines + 1 /\ f[Len(f)] = Torn(m)
AtReflect(f, m) == m.lines + 1 <= Len(f) /\ f[m.lines + 1].id = m.id
Tracks(p) ==
    /\ pc[p] \in {"write", "half", "reflect"} => Short(entries[p], mine[p])
    /\ pc[p] = "write" => AtWrite(file, mine[p])
    /\ pc[p] = "half" => AtHalf(file, mine[p])
    /\ pc[p] = "reflect" => AtReflect(file, mine[p])
Views == Spoiled(file) \/ \A p \in Proc : View(file, entries[p]) /\ Tracks(p)

------------------------------------------------------------------------------
(* What a step does to the file: nothing, or a line is added behind one    *)
(* that is ended, or the last line that is not ended turns into another.   *)
Adds(l) == file' = Append(file, l) /\ (file = <<>> \/ Ended(Last(file)))
Turns(l) == file # <<>> /\ file' = Append(Front(file), l) /\ ~ Ended(Last(file))
Spoils == \E form \in {"torn", "garbled"} : Adds(Garbage(form)) \/ Turns(Garbage(form))
Completes(p, from, to) == Last(file) = Line(mine[p], from) /\ Turns(Line(mine[p], to))

LEMMA AddsIs ==
    ASSUME file \in Seq(Lines), NEW l \in Lines, Adds(l)
    PROVE  /\ file' \in Seq(Lines) /\ file' # <<>> /\ Len(file) \in Nat
           /\ Len(file') = Len(file) + 1
           /\ DOMAIN file = 1..Len(file) /\ DOMAIN file' = 1..(Len(file) + 1)
           /\ \A i \in 1..Len(file) : file'[i] = file[i]
           /\ file'[Len(file) + 1] = l
           /\ file # <<>> => Ended(file[Len(file)])
  <1>1. file' = Append(file, l)
    BY DEF Adds
  <1>2. /\ file' \in Seq(Lines) /\ file' # <<>> /\ Len(file') = Len(file) + 1
        /\ \A i \in 1..Len(file) : file'[i] = file[i] /\ file'[Len(file) + 1] = l
    BY <1>1, AppendProperties
  <1>3. Len(file) \in Nat /\ DOMAIN file = 1..Len(file) /\ DOMAIN file' = 1..Len(file')
    BY <1>2, LenProperties
  <1>4. file'[Len(file) + 1] = l
    BY <1>1, AppendProperties
  <1>5. file # <<>> => Ended(file[Len(file)])
    BY DEF Adds, Last
  <1> QED  BY <1>2, <1>3, <1>4, <1>5

LEMMA TurnsIs ==
    ASSUME file \in Seq(Lines), NEW l \in Lines, Turns(l)
    PROVE  /\ file' \in Seq(Lines) /\ file' # <<>> /\ Len(file) \in Nat /\ Len(file) # 0
           /\ Len(file') = Len(file) /\ Last(file) = file[Len(file)] /\ file # <<>>
           /\ Len(file) \in 1..Len(file)
           /\ DOMAIN file = 1..Len(file) /\ DOMAIN file' = 1..Len(file)
           /\ \A i \in 1..Len(file) : i # Len(file) => file'[i] = file[i]
           /\ file'[Len(file)] = l
           /\ ~ Ended(file[Len(file)])
  <1> DEFINE n == Len(file)
             front == Front(file)
  <1>1. file # <<>> /\ file' = Append(front, l) /\ ~ Ended(file[n]) /\ Last(file) = file[n]
    BY DEF Turns, Last
  <1>2. n \in Nat /\ n # 0 /\ DOMAIN file = 1..n /\ n \in 1..n
    <2>1. n \in Nat /\ DOMAIN file = 1..n
      BY LenProperties
    <2>2. n # 0
      BY <1>1, EmptySeq
    <2> QED  BY <2>1, <2>2
  <1>3. front = SubSeq(file, 1, n - 1)
    BY DEF Front
  <1>4. /\ front \in Seq(Lines) /\ Len(front) = n - 1
        /\ \A i \in 1..(n - 1) : front[i] = file[i]
    <2>1. \A i \in 1..(n - 1) : i \in 1..n
      BY <1>2
    <2>2. \A i \in 1..(n - 1) : file[i] \in Lines
      BY <1>2, <2>1
    <2> QED  BY <1>2, <1>3, <2>2, SubSeqProperties
  <1> HIDE DEF front, n
  <1>5. /\ file' \in Seq(Lines) /\ file' # <<>> /\ Len(file') = Len(front) + 1
        /\ file'[Len(front) + 1] = l /\ \A i \in 1..Len(front) : file'[i] = front[i]
    BY <1>1, <1>4, AppendProperties
  <1>6. Len(front) + 1 = n /\ \A i \in 1..n : i # n => i \in 1..(n - 1) /\ i \in 1..Len(front)
    BY <1>2, <1>4
  <1>7. DOMAIN file' = 1..n
    BY <1>5, <1>6, LenProperties
  <1> QED  BY <1>1, <1>2, <1>4, <1>5, <1>6, <1>7 DEF n

(* What writing comes to.                                                  *)
LEMMA LandedIs ==
    ASSUME NEW l, file' = Landed(l)
    PROVE  Adds(l) \/ Spoils
  <1>1. CASE file # <<>> /\ ~ Ended(Last(file))
    <2>1. file' = Append(Front(file), Garbage(IF Ended(l) THEN "garbled" ELSE "torn"))
      BY <1>1 DEF Landed
    <2>2. PICK form \in {"torn", "garbled"} : form = IF Ended(l) THEN "garbled" ELSE "torn"
      OBVIOUS
    <2>3. Turns(Garbage(form))
      BY <1>1, <2>1, <2>2 DEF Turns
    <2> QED  BY <2>3 DEF Spoils
  <1>2. CASE ~ (file # <<>> /\ ~ Ended(Last(file)))
    BY <1>2 DEF Landed, Adds
  <1> QED  BY <1>1, <1>2

LEMMA CompletedIs ==
    ASSUME NEW p \in Proc, NEW form, file' = Completed(mine[p], form)
    PROVE  Completes(p, "torn", form) \/ Spoils
  <1>1. CASE file # <<>> /\ Last(file) = Line(mine[p], "torn")
    <2>1. ~ Ended(Last(file))
      BY <1>1 DEF Ended, Line
    <2> QED  BY <1>1, <2>1 DEF Completed, Completes, Turns
  <1>2. CASE ~ (file # <<>> /\ Last(file) = Line(mine[p], "torn"))
    <2>1. PICK f \in {"torn", "garbled"} : f = IF form = "whole" THEN "garbled" ELSE "torn"
      OBVIOUS
    <2>2. file' = Landed(Garbage(f))
      BY <1>2, <2>1 DEF Completed
    <2>3. Adds(Garbage(f)) \/ Spoils
      BY <2>2, LandedIs
    <2> QED  BY <2>3 DEF Spoils
  <1> QED  BY <1>1, <1>2

LEMMA NewLineIs ==
    ASSUME NEW p \in Proc, file # <<>>, file' = NewLine(mine[p])
    PROVE  Completes(p, "unended", "whole") \/ Spoils \/ file' = file
  <1>1. CASE Last(file) = Line(mine[p], "unended")
    <2>1. ~ Ended(Last(file))
      BY <1>1 DEF Ended, Line
    <2> QED  BY <1>1, <2>1 DEF NewLine, Completes, Turns
  <1>2. CASE Last(file) # Line(mine[p], "unended") /\ Ended(Last(file))
    BY <1>2 DEF NewLine
  <1>3. CASE Last(file) # Line(mine[p], "unended") /\ ~ Ended(Last(file))
    <2>1. file' = Landed(Garbage("garbled"))
      BY <1>3 DEF NewLine
    <2>2. Adds(Garbage("garbled")) \/ Spoils
      BY <2>1, LandedIs
    <2> QED  BY <2>2 DEF Spoils
  <1> QED  BY <1>1, <1>2, <1>3

(* One disjunct for each way through an action of a process.               *)
Opens(p) ==
    /\ pc[p] = "down" /\ Verifies /\ file' = file
    /\ entries' = [entries EXCEPT ![p] = Loaded] /\ pc' = [pc EXCEPT ![p] = "idle"]
    /\ UNCHANGED <<holder, made, mine, acked, failed>>
Locks(p) ==
    /\ pc[p] = "idle" /\ holder = Nobody /\ made < MaxRecords /\ ~ Damaged /\ file' = file
    /\ mine' = [mine EXCEPT ![p] =
           [id |-> made + 1, lines |-> Len(file),
            prev |-> IF file = <<>> THEN Genesis ELSE Last(file).id]]
    /\ made' = made + 1 /\ holder' = p /\ pc' = [pc EXCEPT ![p] = "write"]
    /\ UNCHANGED <<entries, acked, failed>>
Begins(p) ==
    /\ pc[p] = "write" /\ (Adds(Line(mine[p], "torn")) \/ Spoils)
    /\ pc' = [pc EXCEPT ![p] = "half"]
    /\ UNCHANGED <<holder, made, entries, mine, acked, failed>>
Finishes(p) ==
    /\ pc[p] = "half" /\ (Completes(p, "torn", "whole") \/ Spoils) /\ holder' = Nobody
    /\ pc' = [pc EXCEPT ![p] = "reflect"]
    /\ UNCHANGED <<made, entries, mine, acked, failed>>
Raises(p) ==
    /\ holder' = Nobody /\ failed' = failed \cup {mine[p].id}
    /\ UNCHANGED <<made, entries, mine, acked>>
    /\ \/ pc[p] = "write" /\ pc' = [pc EXCEPT ![p] = "retry all"] /\ file' = file
       \/ pc[p] = "half" /\ pc' = [pc EXCEPT ![p] = "retry rest"] /\ file' = file
       \/ /\ pc[p] = "half" /\ pc' = [pc EXCEPT ![p] = "retry newline"]
          /\ Completes(p, "torn", "unended") \/ Spoils
       \/ /\ pc[p] = "half" /\ pc' = [pc EXCEPT ![p] = "idle"]
          /\ Completes(p, "torn", "whole") \/ Spoils
Closes(p) ==
    /\ pc' = [pc EXCEPT ![p] = "idle"]
    /\ UNCHANGED <<holder, made, entries, mine, acked, failed>>
    /\ \/ pc[p] \in Retrying /\ (file' = file \/ Spoils)
       \/ pc[p] = "retry all" /\ Adds(Line(mine[p], "whole"))
       \/ pc[p] = "retry rest" /\ Completes(p, "torn", "whole")
       \/ pc[p] = "retry newline" /\ Completes(p, "unended", "whole")
Reflects(p) ==
    /\ pc[p] = "reflect" /\ file' = file /\ pc' = [pc EXCEPT ![p] = "idle"]
    /\ UNCHANGED <<holder, made, mine>>
    /\ \/ /\ acked' = acked \cup {mine[p].id} /\ failed' = failed
       \/ /\ acked' = acked /\ failed' = failed \cup {mine[p].id}
    /\ IF mine[p].lines > Len(entries[p])
       THEN entries' = [entries EXCEPT ![p] = Loaded]
       ELSE entries' = [entries EXCEPT ![p] = Append(entries[p], mine[p].id)]
Dies(p) ==
    /\ \/ pc[p] # "down" /\ file' = file
       \/ pc[p] = "half" /\ (Completes(p, "torn", "unended") \/ Spoils)
    /\ holder' = IF holder = p THEN Nobody ELSE holder
    /\ entries' = [entries EXCEPT ![p] = <<>>] /\ pc' = [pc EXCEPT ![p] = "down"]
    /\ UNCHANGED <<made, mine, acked, failed>>

LEMMA Kinds ==
    ASSUME Next, Nonempty
    PROVE  \E p \in Proc : \/ Opens(p) \/ Locks(p) \/ Begins(p) \/ Finishes(p) \/ Raises(p)
                           \/ Closes(p) \/ Reflects(p) \/ Dies(p)
  <1> PICK p \in Proc : \/ Open(p) \/ LockAndRead(p) \/ BeginLine(p) \/ EndLine(p)
                        \/ WriteFails(p) \/ CloseFlush(p) \/ Reflect(p) \/ Crash(p)
    BY DEF Next
  <1>1. CASE Open(p)
    BY <1>1 DEF Open, Opens, Goto
  <1>2. CASE LockAndRead(p)
    BY <1>2 DEF LockAndRead, Locks, Goto
  <1>3. CASE BeginLine(p)
    BY <1>3, LandedIs DEF BeginLine, Begins, Goto
  <1>4. CASE EndLine(p)
    BY <1>4, CompletedIs DEF EndLine, Finishes, Goto
  <1>5. CASE WriteFails(p)
    <2>1. /\ holder' = Nobody /\ failed' = failed \cup {mine[p].id}
          /\ UNCHANGED <<made, entries, mine, acked>>
      BY <1>5 DEF WriteFails, Fails
    <2>2. \/ pc[p] = "write" /\ pc' = [pc EXCEPT ![p] = "retry all"] /\ file' = file
          \/ pc[p] = "half" /\ pc' = [pc EXCEPT ![p] = "retry rest"] /\ file' = file
          \/ /\ pc[p] = "half" /\ pc' = [pc EXCEPT ![p] = "retry newline"]
             /\ file' = Completed(mine[p], "unended")
          \/ /\ pc[p] = "half" /\ pc' = [pc EXCEPT ![p] = "idle"]
             /\ file' = Completed(mine[p], "whole")
      BY <1>5 DEF WriteFails, Goto
    <2> QED  BY <2>1, <2>2, CompletedIs DEF Raises
  <1>6. CASE CloseFlush(p)
    <2>1. /\ pc' = [pc EXCEPT ![p] = "idle"]
          /\ UNCHANGED <<holder, made, entries, mine, acked, failed>>
      BY <1>6 DEF CloseFlush, Goto
    <2>2. \/ pc[p] \in Retrying /\ file' = file
          \/ pc[p] = "retry all" /\ file' = Landed(Line(mine[p], "whole"))
          \/ pc[p] = "retry rest" /\ file' = Completed(mine[p], "whole")
          \/ pc[p] = "retry newline" /\ file' = NewLine(mine[p])
      BY <1>6 DEF CloseFlush, Retrying
    <2>3. CASE pc[p] \in Retrying /\ file' = file
      BY <2>1, <2>3 DEF Closes
    <2>4. CASE pc[p] = "retry all" /\ file' = Landed(Line(mine[p], "whole"))
      BY <2>1, <2>4, LandedIs DEF Closes, Retrying
    <2>5. CASE pc[p] = "retry rest" /\ file' = Completed(mine[p], "whole")
      BY <2>1, <2>5, CompletedIs DEF Closes, Retrying
    <2>6. CASE pc[p] = "retry newline" /\ file' = NewLine(mine[p])
      BY <2>1, <2>6, NewLineIs DEF Closes, Retrying, Nonempty
    <2> QED  BY <2>2, <2>3, <2>4, <2>5, <2>6
  <1>7. CASE Reflect(p)
    BY <1>7 DEF Reflect, Reflects, Goto, Fails
  <1>8. CASE Crash(p)
    BY <1>8, CompletedIs DEF Crash, Dies, Goto
  <1> QED  BY <1>1, <1>2, <1>3, <1>4, <1>5, <1>6, <1>7, <1>8

------------------------------------------------------------------------------
(* The longest beginning of n indices that are all in S.                   *)
Cut(m, n, S) == m \in 0..n /\ (\A i \in 1..m : i \in S) /\ (m < n => m + 1 \notin S)

LEMMA CutExists ==
    ASSUME NEW n \in Nat, NEW S
    PROVE  \E m \in 0..n : Cut(m, n, S)
  <1> DEFINE bad == {i \in 1..n : i \notin S}
  <1>1. CASE bad = {}
    <2>1. \A i \in 1..n : i \in S
      BY <1>1
    <2>2. n \in 0..n /\ ~ (n < n)
      OBVIOUS
    <2> QED  BY <2>1, <2>2 DEF Cut
  <1>2. CASE bad # {}
    <2>1. IsWellFoundedOn(OpToRel(<, Nat), Nat)
      BY NatLessThanWellFounded
    <2>2. bad \subseteq Nat
      OBVIOUS
    <2> DEFINE R == OpToRel(<, Nat)
    <2>3. \A x, y \in bad : <<y, x>> \in R <=> y < x
      BY <2>2 DEF OpToRel
    <2> HIDE DEF R, bad
    <2>4. \E x \in bad : \A y \in bad : ~ (<<y, x>> \in R)
      BY <1>2, <2>1, <2>2, WFMin DEF R
    <2>5. PICK b \in bad : \A y \in bad : ~ (y < b)
      BY <2>3, <2>4
    <2>6. b \in 1..n /\ b \notin S
      BY <2>5 DEF bad
    <2>7. \A i \in 1..(b - 1) : i \in 1..n /\ i < b
      BY <2>6
    <2>8. \A i \in 1..(b - 1) : i \in S
      BY <2>5, <2>7 DEF bad
    <2>9. b - 1 \in 0..n /\ (b - 1) + 1 = b
      BY <2>6
    <2> QED  BY <2>6, <2>8, <2>9 DEF Cut
  <1> QED  BY <1>1, <1>2

LEMMA CutUnique ==
    ASSUME NEW n \in Nat, NEW S, NEW k, NEW m, Cut(k, n, S), Cut(m, n, S)
    PROVE  k = m
  <1>1. ~ (k < m)
    <2> SUFFICES ASSUME k < m PROVE FALSE
      OBVIOUS
    <2>1. k + 1 \in 1..m /\ k < n
      BY DEF Cut
    <2> QED  BY <2>1 DEF Cut
  <1>2. ~ (m < k)
    <2> SUFFICES ASSUME m < k PROVE FALSE
      OBVIOUS
    <2>1. m + 1 \in 1..k /\ m < n
      BY DEF Cut
    <2> QED  BY <2>1 DEF Cut
  <1> QED  BY <1>1, <1>2 DEF Cut

(* What load reads and what the abstract log keeps, of any file.           *)
LoadedOf(f) ==
    LET n == CHOOSE n \in 0..Len(f) :
                 /\ \A i \in 1..n : Readable(f[i])
                 /\ n < Len(f) => ~ Readable(f[n + 1])
    IN  [i \in 1..n |-> f[i].id]
KeptOf(f) ==
    LET n == CHOOSE n \in 0..Len(f) :
                 /\ \A i \in 1..n : f[i].form = "whole"
                 /\ n < Len(f) => f[n + 1].form # "whole"
    IN  [i \in 1..n |-> f[i].id]
Legible(f) == {i \in 1..Len(f) : Readable(f[i])}
IsWhole(l) == l.form = "whole"
Wholes(f) == {i \in 1..Len(f) : IsWhole(f[i])}

LEMMA LoadedHas ==
    ASSUME NEW f \in Seq(Lines)
    PROVE  \E m \in 0..Len(f) :
               Cut(m, Len(f), Legible(f)) /\ LoadedOf(f) = [i \in 1..m |-> f[i].id]
  <1> DEFINE n == CHOOSE n \in 0..Len(f) :
                 /\ \A i \in 1..n : Readable(f[i])
                 /\ n < Len(f) => ~ Readable(f[n + 1])
  <1>1. Len(f) \in Nat
    BY LenProperties
  <1>2. PICK m \in 0..Len(f) : Cut(m, Len(f), Legible(f))
    BY <1>1, CutExists
  <1>3. \A k \in 0..Len(f) : (k < Len(f) => k + 1 \in 1..Len(f)) /\ \A i \in 1..k : i \in 1..Len(f)
    BY <1>1
  <1>4. \A k \in 0..Len(f) : Cut(k, Len(f), Legible(f)) <=>
            /\ \A i \in 1..k : Readable(f[i])
            /\ k < Len(f) => ~ Readable(f[k + 1])
    BY <1>3 DEF Cut, Legible
  <1>5. n \in 0..Len(f) /\ Cut(n, Len(f), Legible(f))
    <2>1. \E k \in 0..Len(f) :
              /\ \A i \in 1..k : Readable(f[i])
              /\ k < Len(f) => ~ Readable(f[k + 1])
      BY <1>2, <1>4
    <2>2. /\ n \in 0..Len(f) /\ \A i \in 1..n : Readable(f[i])
          /\ n < Len(f) => ~ Readable(f[n + 1])
      BY <2>1
    <2> HIDE DEF n
    <2> QED  BY <1>4, <2>2
  <1>6. LoadedOf(f) = [i \in 1..n |-> f[i].id]
    BY DEF LoadedOf
  <1> HIDE DEF n
  <1> QED  BY <1>5, <1>6

LEMMA KeptHas ==
    ASSUME NEW f \in Seq(Lines)
    PROVE  \E m \in 0..Len(f) :
               Cut(m, Len(f), Wholes(f)) /\ KeptOf(f) = [i \in 1..m |-> f[i].id]
  <1> DEFINE n == CHOOSE n \in 0..Len(f) :
                 /\ \A i \in 1..n : IsWhole(f[i])
                 /\ n < Len(f) => ~ IsWhole(f[n + 1])
  <1>1. Len(f) \in Nat
    BY LenProperties
  <1>2. PICK m \in 0..Len(f) : Cut(m, Len(f), Wholes(f))
    BY <1>1, CutExists
  <1>3. \A k \in 0..Len(f) : (k < Len(f) => k + 1 \in 1..Len(f)) /\ \A i \in 1..k : i \in 1..Len(f)
    BY <1>1
  <1>4. \A k \in 0..Len(f) : Cut(k, Len(f), Wholes(f)) <=>
            /\ \A i \in 1..k : IsWhole(f[i])
            /\ k < Len(f) => ~ IsWhole(f[k + 1])
    BY <1>3 DEF Cut, Wholes
  <1>5. n \in 0..Len(f) /\ Cut(n, Len(f), Wholes(f))
    <2>1. \E k \in 0..Len(f) :
              /\ \A i \in 1..k : IsWhole(f[i])
              /\ k < Len(f) => ~ IsWhole(f[k + 1])
      BY <1>2, <1>4
    <2>2. /\ n \in 0..Len(f) /\ \A i \in 1..n : IsWhole(f[i])
          /\ n < Len(f) => ~ IsWhole(f[n + 1])
      BY <2>1
    <2> HIDE DEF n
    <2> QED  BY <1>4, <2>2
  <1>6. KeptOf(f) = [i \in 1..n |-> f[i].id]
    BY DEF KeptOf, IsWhole
  <1> HIDE DEF n
  <1> QED  BY <1>5, <1>6

LEMMA LoadedTyped ==
    ASSUME file \in Seq(Lines)
    PROVE  Loaded \in Seq(Nat)
  <1>1. PICK m \in 0..Len(file) : LoadedOf(file) = [i \in 1..m |-> file[i].id]
    BY LoadedHas
  <1>2. Len(file) \in Nat /\ DOMAIN file = 1..Len(file)
    BY LenProperties
  <1>3. m \in Nat /\ \A i \in 1..m : i \in 1..Len(file)
    BY <1>1, <1>2
  <1>4. \A i \in 1..m : file[i] \in Lines /\ file[i].id \in Nat
    <2>1. \A l \in Lines : l.id \in Nat
      BY DEF Lines
    <2>2. \A i \in 1..m : file[i] \in Lines
      BY <1>2, <1>3
    <2> QED  BY <2>1, <2>2
  <1>5. [i \in 1..m |-> file[i].id] \in Seq(Nat)
    BY <1>3, <1>4, SeqDef
  <1> QED  BY <1>1, <1>5 DEF Loaded, LoadedOf

------------------------------------------------------------------------------
(* One process takes a step of one of these kinds.                         *)
Moves(p) ==
    \/ Opens(p) \/ Locks(p) \/ Begins(p) \/ Finishes(p) \/ Raises(p)
    \/ Closes(p) \/ Reflects(p) \/ Dies(p)

LEMMA IdsGrow ==
    ASSUME NEW n \in Nat
    PROVE  Ids(n) \subseteq Ids(n + 1) /\ n + 1 \in Ids(n + 1) /\ n + 1 \notin Ids(n)
           /\ Genesis \notin Ids(n) /\ Ids(n) \subseteq Nat
  BY DEF Ids, Genesis

LEMMA NumbersStep ==
    ASSUME ChainTypes, Numbers, NEW p \in Proc, Moves(p)
    PROVE  Numbers'
  <1> DEFINE new == made + 1
  <1>0. /\ pc \in [Proc -> Stages] /\ DOMAIN mine = Proc /\ p # Nobody /\ Nobody \notin Proc
        /\ Ids(made) \subseteq Ids(new) /\ new \in Ids(new) /\ new \notin Ids(made)
    <2>1. made \in Nat
      BY ChainAssumption DEF ChainTypes
    <2> QED  BY <2>1, IdsGrow, ChainAssumption DEF ChainTypes, Nobody
  <1> HIDE DEF new
  <1> DEFINE Writing(l) == l \in {"write", "half"}
  <1>1. ASSUME /\ mine' = mine /\ made' = made /\ acked' = acked /\ failed \subseteq failed'
               /\ \A q \in Proc : q # p => pc'[q] = pc[q]
               /\ pc'[p] \in Busy => pc[p] \in Busy
               /\ pc'[p] \in Retrying => mine[p].id \in failed'
               /\ Writing(pc'[p]) => Writing(pc[p]) /\ holder' = holder
               /\ holder' # holder => holder = p
        PROVE  Numbers'
    <2>1. \A q \in Proc : Writing(pc'[q]) => holder' = q
      BY <1>1 DEF Numbers
    <2> HIDE DEF Writing
    <2>2. \A q \in Proc : pc'[q] \in Busy => mine'[q].id \in Ids(made') /\ mine'[q].id \notin acked'
      BY <1>1 DEF Numbers
    <2>3. \A q, r \in Proc :
              q # r /\ pc'[q] \in Busy /\ pc'[r] \in Busy => mine'[q].id # mine'[r].id
      BY <1>1 DEF Numbers
    <2>4. \A q \in Proc : pc'[q] \in Retrying => mine'[q].id \in failed'
      BY <1>1 DEF Numbers
    <2>5. acked' \subseteq Ids(made')
      BY <1>1 DEF Numbers
    <2> QED  BY <2>1, <2>2, <2>3, <2>4, <2>5 DEF Numbers, Writing
  <1>2. CASE Opens(p)
    BY <1>0, <1>1, <1>2 DEF Opens, Busy, Retrying
  <1>3. CASE Locks(p)
    <2>1. made' = new /\ mine'[p].id = new /\ (\A q \in Proc : q # p => mine'[q] = mine[q])
          /\ holder = Nobody /\ holder' = p /\ acked' = acked /\ failed' = failed
      BY <1>0, <1>3 DEF Locks, new
    <2>2. \A q \in Proc : pc'[q] = IF q = p THEN "write" ELSE pc[q]
      BY <1>0, <1>3 DEF Locks
    <2>3. \A q \in Proc : q # p => ~ Writing(pc[q])
      BY <1>0, <2>1 DEF Numbers
    <2>4. pc'[p] \notin Retrying
      BY <2>2 DEF Retrying
    <2>5. \A q \in Proc : Writing(pc'[q]) => holder' = q
      BY <2>1, <2>2, <2>3
    <2>6. \A q \in Proc : pc[q] \in Busy => mine[q].id # new
      BY <1>0 DEF Numbers
    <2> HIDE DEF Writing
    <2>7. \A q \in Proc : pc'[q] \in Busy => mine'[q].id \in Ids(made') /\ mine'[q].id \notin acked'
      BY <1>0, <2>1, <2>2 DEF Numbers
    <2>8. \A q, r \in Proc :
              q # r /\ pc'[q] \in Busy /\ pc'[r] \in Busy => mine'[q].id # mine'[r].id
      BY <2>1, <2>2, <2>6 DEF Numbers
    <2>9. \A q \in Proc : pc'[q] \in Retrying => mine'[q].id \in failed'
      BY <2>1, <2>2, <2>4 DEF Numbers
    <2>10. acked' \subseteq Ids(made')
      BY <1>0, <2>1 DEF Numbers
    <2> QED  BY <2>5, <2>7, <2>8, <2>9, <2>10 DEF Numbers, Writing
  <1>4. CASE Begins(p)
    BY <1>0, <1>1, <1>4 DEF Begins, Busy, Retrying
  <1>5. CASE Finishes(p)
    BY <1>0, <1>1, <1>5 DEF Finishes, Busy, Retrying, Numbers
  <1>6. CASE Raises(p)
    <2>1. /\ mine' = mine /\ made' = made /\ acked' = acked /\ failed \subseteq failed'
          /\ mine[p].id \in failed' /\ Writing(pc[p]) /\ pc'[p] \notin {"write", "half"}
          /\ pc[p] \in Busy /\ \A q \in Proc : q # p => pc'[q] = pc[q]
      BY <1>0, <1>6 DEF Raises, Busy
    <2>2. holder = p
      BY <2>1 DEF Numbers
    <2> QED  BY <1>1, <2>1, <2>2
  <1>7. CASE Closes(p)
    BY <1>0, <1>1, <1>7 DEF Closes, Busy, Retrying
  <1>8. CASE Reflects(p)
    <2>1. /\ mine' = mine /\ made' = made /\ holder' = holder /\ pc[p] \in Busy
          /\ acked' \subseteq acked \cup {mine[p].id} /\ failed \subseteq failed'
      BY <1>8 DEF Reflects, Busy
    <2>2. \A q \in Proc : pc'[q] = IF q = p THEN "idle" ELSE pc[q]
      BY <1>0, <1>8 DEF Reflects
    <2>3. pc'[p] \notin Busy /\ pc'[p] \notin Retrying /\ ~ Writing(pc'[p])
      BY <2>2 DEF Busy, Retrying
    <2>4. \A q \in Proc : Writing(pc'[q]) => holder' = q
      BY <2>1, <2>2, <2>3 DEF Numbers
    <2> HIDE DEF Writing
    <2>5. \A q \in Proc : pc'[q] \in Busy => mine'[q].id \in Ids(made') /\ mine'[q].id \notin acked'
      BY <2>1, <2>2, <2>3 DEF Numbers
    <2>6. \A q, r \in Proc :
              q # r /\ pc'[q] \in Busy /\ pc'[r] \in Busy => mine'[q].id # mine'[r].id
      BY <2>1, <2>2, <2>3 DEF Numbers
    <2>7. \A q \in Proc : pc'[q] \in Retrying => mine'[q].id \in failed'
      BY <2>1, <2>2, <2>3 DEF Numbers
    <2>8. acked' \subseteq Ids(made')
      BY <2>1 DEF Numbers
    <2> QED  BY <2>4, <2>5, <2>6, <2>7, <2>8 DEF Numbers, Writing
  <1>9. CASE Dies(p)
    BY <1>0, <1>1, <1>9 DEF Dies, Busy, Retrying
  <1> QED  BY <1>2, <1>3, <1>4, <1>5, <1>6, <1>7, <1>8, <1>9 DEF Moves

(* The lines that steps put into the file.                                 *)
LEMMA LineFacts ==
    ASSUME ChainTypes, NEW p \in Proc
    PROVE  /\ \A form \in Forms : /\ Line(mine[p], form) \in Lines
                                  /\ Line(mine[p], form).id = mine[p].id
                                  /\ Line(mine[p], form).prev = mine[p].prev
                                  /\ Line(mine[p], form).form = form
           /\ \A form \in Forms : Garbage(form) \in Lines /\ Garbage(form).id = Genesis
           /\ \A form \in {"torn", "garbled"} : ~ Readable(Garbage(form)) /\ form \in Forms
  <1>1. mine[p] \in [id : Nat, prev : Nat, lines : Nat]
    BY DEF ChainTypes
  <1>2. mine[p].id \in Nat /\ mine[p].prev \in Nat /\ Genesis \in Nat
    BY <1>1 DEF Genesis
  <1>3. \A form \in Forms : /\ Line(mine[p], form) \in Lines
                            /\ Line(mine[p], form).id = mine[p].id
                            /\ Line(mine[p], form).prev = mine[p].prev
                            /\ Line(mine[p], form).form = form
    BY <1>2 DEF Line, Lines
  <1>4. \A form \in Forms : Garbage(form) \in Lines /\ Garbage(form).id = Genesis
    BY <1>2 DEF Garbage, Lines
  <1>5. \A form \in {"torn", "garbled"} : ~ Readable(Garbage(form)) /\ form \in Forms
    BY DEF Garbage, Readable, Forms
  <1> QED  BY <1>3, <1>4, <1>5

(* What a step that puts a line into the file does to its indices.         *)
Puts(l) == Adds(l) \/ Turns(l)
LEMMA PutsIs ==
    ASSUME file \in Seq(Lines), NEW l \in Lines, Puts(l)
    PROVE  /\ file' \in Seq(Lines) /\ file' # <<>>
           /\ Len(file') \in DOMAIN file' /\ file'[Len(file')] = l
           /\ \A i \in DOMAIN file' :
                  i # Len(file') => i \in DOMAIN file /\ file'[i] = file[i]
           /\ DOMAIN file \subseteq DOMAIN file'
           /\ \A i \in DOMAIN file : i # Len(file') => file'[i] = file[i]
           /\ Adds(l) => Len(file') \notin DOMAIN file /\ (file # <<>> => Ended(file[Len(file)]))
           /\ Turns(l) => /\ Len(file') = Len(file) /\ Len(file) \in DOMAIN file
                          /\ Last(file) = file[Len(file)] /\ ~ Ended(file[Len(file)])
  <1>0. DOMAIN file' = 1..Len(file') \/ file' \notin Seq(Lines)
    BY LenProperties
  <1>1. CASE Adds(l)
    <2> DEFINE n == Len(file)
    <2>1. /\ file' \in Seq(Lines) /\ file' # <<>> /\ n \in Nat
          /\ Len(file') = n + 1
          /\ DOMAIN file = 1..n /\ DOMAIN file' = 1..(n + 1)
          /\ \A i \in 1..n : file'[i] = file[i]
          /\ file'[n + 1] = l
          /\ file # <<>> => Ended(file[n])
      BY <1>1, AddsIs
    <2>2. \A i \in 1..(n + 1) : i # n + 1 => i \in 1..n
      BY <2>1
    <2>3. n + 1 \in 1..(n + 1) /\ n + 1 \notin 1..n /\ 1..n \subseteq 1..(n + 1)
      BY <2>1
    <2>4. ~ Turns(l)
      <3>1. Turns(l) => Len(file') = Len(file)
        BY TurnsIs
      <3>2. Len(file') = Len(file) + 1 /\ Len(file) \in Nat
        BY <1>1, AddsIs
      <3> QED  BY <3>1, <3>2
    <2> HIDE DEF n
    <2>5. Len(file') \in DOMAIN file' /\ file'[Len(file')] = l
      BY <2>1, <2>3
    <2>6. \A i \in DOMAIN file' : i # Len(file') => i \in DOMAIN file /\ file'[i] = file[i]
      BY <2>1, <2>2
    <2>7. DOMAIN file \subseteq DOMAIN file' /\ \A i \in DOMAIN file : file'[i] = file[i]
      BY <2>1, <2>3
    <2>8. Len(file') \notin DOMAIN file /\ (file # <<>> => Ended(file[Len(file)]))
      BY <2>1, <2>3 DEF n
    <2>9. file' \in Seq(Lines) /\ file' # <<>>
      BY <2>1
    <2> QED  BY <2>4, <2>5, <2>6, <2>7, <2>8, <2>9
  <1>2. CASE Turns(l)
    <2>1. ~ Adds(l)
      <3>1. Adds(l) => Len(file') = Len(file) + 1
        BY AddsIs
      <3>2. Len(file') = Len(file) /\ Len(file) \in Nat
        BY <1>2, TurnsIs
      <3> QED  BY <3>1, <3>2
    <2> QED  BY <1>2, <2>1, TurnsIs
  <1> QED  BY <1>1, <1>2 DEF Puts

------------------------------------------------------------------------------
(* A step leaves the file alone, or writes one line.                       *)
Keeps(p, s) ==
    /\ file' = file /\ pc' = [pc EXCEPT ![p] = s]
    /\ \/ Locks(p) /\ s = "write"
       \/ /\ mine' = mine /\ made' = made /\ s \notin {"write", "half", "retry newline", "reflect"}
          /\ s = "retry rest" => pc[p] = "half"
          /\ s = "retry all" => pc[p] = "write"

Writes(p, s, l) ==
    /\ Puts(l) /\ pc' = [pc EXCEPT ![p] = s] /\ mine' = mine /\ made' = made
    /\ pc[p] \in Busy /\ pc[p] # "reflect" /\ acked' = acked
    /\ s \notin {"write", "retry all", "retry rest"}
    /\ s = "half" => pc[p] = "write"
    /\ s = "reflect" => pc[p] = "half"
    /\ \/ l.id = Genesis /\ ~ Readable(l)
       \/ /\ Adds(l) /\ pc[p] \in {"write", "retry all"} /\ l.id = mine[p].id /\ l.prev = mine[p].prev
          /\ s = "half" => l = Line(mine[p], "torn")
          /\ s = "half" <=> pc[p] = "write"
       \/ /\ Turns(l) /\ s # "half" /\ pc[p] \in {"half", "retry rest", "retry newline"}
          /\ l.id = mine[p].id /\ l.prev = mine[p].prev
          /\ Last(file).id = mine[p].id /\ Last(file).prev = mine[p].prev
          /\ Readable(l) /\ (pc[p] = "retry newline" => Readable(Last(file)))

LEMMA SpoilsIs ==
    ASSUME ChainTypes, NEW p \in Proc, Spoils
    PROVE  \E l \in Lines : Puts(l) /\ l.id = Genesis /\ ~ Readable(l)
  <1>1. PICK form \in {"torn", "garbled"} : Puts(Garbage(form))
    BY DEF Spoils, Puts
  <1>2. Garbage(form) \in Lines /\ Garbage(form).id = Genesis /\ ~ Readable(Garbage(form))
    BY LineFacts
  <1> QED  BY <1>1, <1>2

LEMMA AddsLine ==
    ASSUME ChainTypes, NEW p \in Proc, NEW form \in Forms, Adds(Line(mine[p], form))
    PROVE  \E l \in Lines : /\ Puts(l) /\ Adds(l) /\ l = Line(mine[p], form)
                            /\ l.id = mine[p].id /\ l.prev = mine[p].prev
  <1> DEFINE l == Line(mine[p], form)
  <1>1. l \in Lines /\ l.id = mine[p].id /\ l.prev = mine[p].prev
    BY LineFacts
  <1>2. Puts(l)
    BY DEF Puts
  <1> QED  BY <1>1, <1>2

LEMMA CompletesLine ==
    ASSUME ChainTypes, NEW p \in Proc, NEW from \in Forms, NEW to \in {"unended", "whole"},
           Completes(p, from, to)
    PROVE  \E l \in Lines : /\ Puts(l) /\ Turns(l) /\ l.id = mine[p].id /\ l.prev = mine[p].prev
                            /\ Last(file).id = mine[p].id /\ Last(file).prev = mine[p].prev
                            /\ Readable(l) /\ Last(file).form = from
  <1> DEFINE l == Line(mine[p], to)
  <1>1. to \in Forms
    BY DEF Forms
  <1>2. l \in Lines /\ l.id = mine[p].id /\ l.prev = mine[p].prev /\ l.form = to
    BY <1>1, LineFacts
  <1>3. /\ Line(mine[p], from).id = mine[p].id /\ Line(mine[p], from).prev = mine[p].prev
        /\ Line(mine[p], from).form = from
    BY LineFacts
  <1>4. Readable(l)
    BY <1>2 DEF Readable
  <1> HIDE DEF l
  <1>5. Turns(l) /\ Last(file) = Line(mine[p], from)
    BY DEF Completes, l
  <1> QED  BY <1>2, <1>3, <1>4, <1>5 DEF Puts

LEMMA MovesAre ==
    ASSUME ChainTypes, NEW p \in Proc, Moves(p)
    PROVE  \E s \in Stages : Keeps(p, s) \/ \E l \in Lines : Writes(p, s, l)
  <1>0. /\ {"torn", "whole", "unended"} \subseteq Forms
        /\ \A s \in {"down", "idle", "write", "half", "reflect", "retry all", "retry rest",
                     "retry newline"} : s \in Stages
    BY DEF Forms, Stages, Busy, Retrying
  <1>1. CASE Opens(p)
    <2>1. Keeps(p, "idle")
      BY <1>1 DEF Opens, Keeps
    <2> QED  BY <1>0, <2>1
  <1>2. CASE Locks(p)
    <2>1. Keeps(p, "write")
      BY <1>2 DEF Locks, Keeps
    <2> QED  BY <1>0, <2>1
  <1>3. CASE Begins(p)
    <2>1. CASE Spoils
      <3>1. PICK l \in Lines : Puts(l) /\ l.id = Genesis /\ ~ Readable(l)
        BY <2>1, SpoilsIs
      <3>2. Writes(p, "half", l)
        BY <1>3, <3>1 DEF Begins, Writes, Busy
      <3> QED  BY <1>0, <3>2
    <2>2. CASE Adds(Line(mine[p], "torn"))
      <3>1. PICK l \in Lines : /\ Puts(l) /\ Adds(l) /\ l = Line(mine[p], "torn")
                               /\ l.id = mine[p].id /\ l.prev = mine[p].prev
        BY <1>0, <2>2, AddsLine
      <3>2. Writes(p, "half", l)
        BY <1>3, <3>1 DEF Begins, Writes, Busy
      <3> QED  BY <1>0, <3>2
    <2> QED  BY <1>3, <2>1, <2>2 DEF Begins
  <1>4. ASSUME NEW s \in {"reflect", "retry newline", "idle", "down"}, pc' = [pc EXCEPT ![p] = s],
               mine' = mine, made' = made, acked' = acked, pc[p] \in Busy, pc[p] # "reflect",
               s = "reflect" => pc[p] = "half", Spoils
        PROVE  \E l \in Lines : Writes(p, s, l)
    <2>1. PICK l \in Lines : Puts(l) /\ l.id = Genesis /\ ~ Readable(l)
      BY <1>4, SpoilsIs
    <2>2. Writes(p, s, l)
      BY <1>4, <2>1 DEF Writes
    <2> QED  BY <2>2
  <1>5. ASSUME NEW s \in {"reflect", "retry newline", "idle", "down"}, pc' = [pc EXCEPT ![p] = s],
               mine' = mine, made' = made, acked' = acked, NEW to \in {"whole", "unended"},
               s = "reflect" => pc[p] = "half",
               \/ pc[p] \in {"half", "retry rest"} /\ Completes(p, "torn", to)
               \/ pc[p] = "retry newline" /\ Completes(p, "unended", to)
        PROVE  \E l \in Lines : Writes(p, s, l)
    <2>1. PICK l \in Lines : /\ Puts(l) /\ Turns(l) /\ l.id = mine[p].id /\ l.prev = mine[p].prev
                             /\ Last(file).id = mine[p].id /\ Last(file).prev = mine[p].prev
                             /\ Readable(l) /\ (pc[p] = "retry newline" => Last(file).form = "unended")
      BY <1>0, <1>5, CompletesLine
    <2>2. pc[p] = "retry newline" => Readable(Last(file))
      BY <2>1 DEF Readable
    <2>3. Writes(p, s, l)
      BY <1>5, <2>1, <2>2 DEF Writes, Busy, Retrying
    <2> QED  BY <2>3
  <1>6. CASE Finishes(p)
    <2>1. \E l \in Lines : Writes(p, "reflect", l)
      BY <1>4, <1>5, <1>6 DEF Finishes, Busy
    <2> QED  BY <1>0, <2>1
  <1>7. CASE Raises(p)
    <2>1. CASE pc[p] = "write" /\ pc' = [pc EXCEPT ![p] = "retry all"] /\ file' = file
      <3>1. Keeps(p, "retry all")
        BY <1>7, <2>1 DEF Raises, Keeps
      <3> QED  BY <1>0, <3>1
    <2>2. CASE pc[p] = "half" /\ pc' = [pc EXCEPT ![p] = "retry rest"] /\ file' = file
      <3>1. Keeps(p, "retry rest")
        BY <1>7, <2>2 DEF Raises, Keeps
      <3> QED  BY <1>0, <3>1
    <2>3. CASE /\ pc[p] = "half" /\ pc' = [pc EXCEPT ![p] = "retry newline"]
               /\ Completes(p, "torn", "unended") \/ Spoils
      <3>1. \E l \in Lines : Writes(p, "retry newline", l)
        BY <1>4, <1>5, <1>7, <2>3 DEF Raises, Busy
      <3> QED  BY <1>0, <3>1
    <2>4. CASE /\ pc[p] = "half" /\ pc' = [pc EXCEPT ![p] = "idle"]
               /\ Completes(p, "torn", "whole") \/ Spoils
      <3>1. \E l \in Lines : Writes(p, "idle", l)
        BY <1>4, <1>5, <1>7, <2>4 DEF Raises, Busy
      <3> QED  BY <1>0, <3>1
    <2> QED  BY <1>7, <2>1, <2>2, <2>3, <2>4 DEF Raises
  <1>8. CASE Closes(p)
    <2>0. pc' = [pc EXCEPT ![p] = "idle"] /\ mine' = mine /\ made' = made /\ acked' = acked
      BY <1>8 DEF Closes
    <2>1. CASE file' = file
      <3>1. Keeps(p, "idle")
        BY <2>0, <2>1 DEF Keeps
      <3> QED  BY <1>0, <3>1
    <2>2. CASE pc[p] \in Retrying /\ Spoils
      <3>1. \E l \in Lines : Writes(p, "idle", l)
        BY <1>4, <2>0, <2>2 DEF Busy, Retrying
      <3> QED  BY <1>0, <3>1
    <2>3. CASE pc[p] = "retry all" /\ Adds(Line(mine[p], "whole"))
      <3>1. PICK l \in Lines : /\ Puts(l) /\ Adds(l) /\ l = Line(mine[p], "whole")
                               /\ l.id = mine[p].id /\ l.prev = mine[p].prev
        BY <1>0, <2>3, AddsLine
      <3>2. Writes(p, "idle", l)
        BY <2>0, <2>3, <3>1 DEF Writes, Busy, Retrying
      <3> QED  BY <1>0, <3>2
    <2>4. CASE \/ pc[p] = "retry rest" /\ Completes(p, "torn", "whole")
               \/ pc[p] = "retry newline" /\ Completes(p, "unended", "whole")
      <3>1. \E l \in Lines : Writes(p, "idle", l)
        BY <1>5, <2>0, <2>4
      <3> QED  BY <1>0, <3>1
    <2> QED  BY <1>8, <2>1, <2>2, <2>3, <2>4 DEF Closes
  <1>9. CASE Reflects(p)
    <2>1. Keeps(p, "idle")
      BY <1>9 DEF Reflects, Keeps
    <2> QED  BY <1>0, <2>1
  <1>10. CASE Dies(p)
    <2>0. pc' = [pc EXCEPT ![p] = "down"] /\ mine' = mine /\ made' = made /\ acked' = acked
      BY <1>10 DEF Dies
    <2>1. CASE file' = file
      <3>1. Keeps(p, "down")
        BY <2>0, <2>1 DEF Keeps
      <3> QED  BY <1>0, <3>1
    <2>2. CASE pc[p] = "half" /\ (Completes(p, "torn", "unended") \/ Spoils)
      <3>1. \E l \in Lines : Writes(p, "down", l)
        BY <1>4, <1>5, <2>0, <2>2 DEF Busy
      <3> QED  BY <1>0, <3>1
    <2> QED  BY <1>10, <2>1, <2>2 DEF Dies
  <1> QED  BY <1>1, <1>2, <1>3, <1>6, <1>7, <1>8, <1>9, <1>10 DEF Moves

------------------------------------------------------------------------------
LEMMA KeepsPlaces ==
    ASSUME ChainTypes, Numbers, Places, NEW p \in Proc, NEW s, Keeps(p, s)
    PROVE  Places'
  <1> DEFINE new == made + 1
  <1>0. /\ pc \in [Proc -> Stages] /\ DOMAIN mine = Proc /\ file' = file
        /\ Ids(made) \subseteq Ids(new) /\ new \notin Ids(made) /\ new # Genesis
    <2>1. made \in Nat
      BY ChainAssumption DEF ChainTypes
    <2>2. new \in Ids(new) /\ Genesis \notin Ids(new)
      BY <2>1, IdsGrow DEF Ids, Genesis
    <2> QED  BY <2>1, <2>2, IdsGrow DEF ChainTypes, Keeps
  <1> HIDE DEF new
  <1>1. CASE Locks(p)
    <2>1. made' = new /\ mine'[p].id = new /\ \A q \in Proc : q # p => mine'[q] = mine[q]
      BY <1>0, <1>1 DEF Locks, new
    <2>2. \A q \in Proc : pc'[q] = IF q = p THEN "write" ELSE pc[q]
      BY <1>0, <1>1 DEF Locks
    <2>3. \A i \in DOMAIN file : file[i].id # new
      BY <1>0 DEF Places, Known
    <2>4. Known'
      BY <1>0, <2>1 DEF Places, Known, Readable
    <2>5. Distinct'
      BY <1>0 DEF Places, Distinct
    <2>6. Unwritten'
      <3> SUFFICES ASSUME NEW q \in Proc, pc'[q] \in {"write", "retry all"}, NEW i \in DOMAIN file
                   PROVE  file[i].id # mine'[q].id
        BY <1>0 DEF Unwritten
      <3>1. CASE q = p
        BY <2>1, <2>3, <3>1
      <3>2. CASE q # p
        BY <2>1, <2>2, <3>2 DEF Places, Unwritten
      <3> QED  BY <3>1, <3>2
    <2>7. Begun'
      <3> SUFFICES ASSUME NEW q \in Proc, pc'[q] \in {"half", "retry rest"}, NEW i \in DOMAIN file,
                          file[i].id = mine'[q].id
                   PROVE  i = Len(file) /\ file[i] = Line(mine'[q], "torn")
        BY <1>0 DEF Begun, Line
      <3>1. pc[q] \in {"half", "retry rest"} /\ mine'[q] = mine[q]
        BY <2>1, <2>2
      <3> QED  BY <3>1 DEF Places, Begun
    <2>8. Nonempty'
      BY <1>0, <2>2 DEF Places, Nonempty
    <2> QED  BY <2>4, <2>5, <2>6, <2>7, <2>8 DEF Places
  <1>2. CASE ~ Locks(p)
    <2>1. /\ mine' = mine /\ made' = made /\ s \notin {"write", "half", "retry newline", "reflect"}
          /\ s = "retry rest" => pc[p] = "half"
          /\ s = "retry all" => pc[p] = "write"
      BY <1>2 DEF Keeps
    <2>2. \A q \in Proc : pc'[q] = IF q = p THEN s ELSE pc[q]
      BY <1>0 DEF Keeps
    <2>4. Known'
      BY <1>0, <2>1 DEF Places, Known, Readable
    <2>5. Distinct'
      BY <1>0 DEF Places, Distinct
    <2>6. Unwritten'
      <3> SUFFICES ASSUME NEW q \in Proc, pc'[q] \in {"write", "retry all"}, NEW i \in DOMAIN file
                   PROVE  file[i].id # mine[q].id
        BY <1>0, <2>1 DEF Unwritten
      <3>1. pc[q] \in {"write", "retry all"}
        BY <2>1, <2>2
      <3> QED  BY <3>1 DEF Places, Unwritten
    <2>7. Begun'
      <3> SUFFICES ASSUME NEW q \in Proc, pc'[q] \in {"half", "retry rest"}
                   PROVE  pc[q] \in {"half", "retry rest"}
        BY <1>0, <2>1 DEF Places, Begun
      <3> QED  BY <2>1, <2>2
    <2>8. Nonempty'
      BY <1>0, <2>1, <2>2 DEF Places, Nonempty
    <2> QED  BY <2>4, <2>5, <2>6, <2>7, <2>8 DEF Places
  <1> QED  BY <1>1, <1>2

LEMMA Inhabited ==
    ASSUME file \in Seq(Lines), NEW i \in DOMAIN file
    PROVE  file # <<>>
  <1>1. i \in 1..Len(file) /\ Len(file) \in Nat
    BY LenProperties
  <1>2. Len(file) # 0
    BY <1>1
  <1> QED  BY <1>2, EmptySeq

LEMMA WritesPlaces ==
    ASSUME ChainTypes, Numbers, Places, NEW p \in Proc, NEW s, NEW l \in Lines, Writes(p, s, l)
    PROVE  Places'
  <1> DEFINE n == Len(file')
  <1>0. /\ mine' = mine /\ made' = made /\ made \in Nat /\ Genesis \notin Ids(made)
        /\ file \in Seq(Lines) /\ mine[p].id \in Ids(made)
        /\ \A q \in Proc : pc'[q] = IF q = p THEN s ELSE pc[q]
        /\ s \notin {"write", "retry all", "retry rest"} /\ (s = "half" => pc[p] = "write")
    <2>1. made \in Nat
      BY ChainAssumption DEF ChainTypes
    <2>2. Genesis \notin Ids(made)
      BY <2>1, IdsGrow
    <2>3. /\ mine' = mine /\ made' = made /\ pc' = [pc EXCEPT ![p] = s] /\ pc[p] \in Busy
          /\ s \notin {"write", "retry all", "retry rest"} /\ (s = "half" => pc[p] = "write")
      BY DEF Writes
    <2>4. file \in Seq(Lines) /\ \A q \in Proc : pc'[q] = IF q = p THEN s ELSE pc[q]
      BY <2>3 DEF ChainTypes
    <2>5. mine[p].id \in Ids(made)
      BY <2>3 DEF Numbers
    <2> QED  BY <2>1, <2>2, <2>3, <2>4, <2>5
  <1>1. /\ file' # <<>> /\ n \in DOMAIN file' /\ file'[n] = l /\ DOMAIN file \subseteq DOMAIN file'
        /\ \A i \in DOMAIN file' : i # n => i \in DOMAIN file /\ file'[i] = file[i]
        /\ \A i \in DOMAIN file : i # n => file'[i] = file[i]
        /\ Adds(l) => n \notin DOMAIN file /\ (file # <<>> => Ended(file[Len(file)]))
        /\ Turns(l) => /\ n = Len(file) /\ Len(file) \in DOMAIN file
                       /\ Last(file) = file[Len(file)] /\ ~ Ended(file[Len(file)])
    BY <1>0, PutsIs DEF Writes
  <1> HIDE DEF n
  <1>2. \/ l.id = Genesis /\ ~ Readable(l)
        \/ l.id = mine[p].id /\ \A i \in DOMAIN file' : i # n => file'[i].id # mine[p].id
    <2>1. CASE l.id = Genesis /\ ~ Readable(l)
      BY <2>1
    <2>2. CASE Adds(l) /\ pc[p] \in {"write", "retry all"} /\ l.id = mine[p].id
      BY <1>1, <2>2 DEF Places, Unwritten
    <2>3. CASE Turns(l) /\ l.id = mine[p].id /\ Last(file).id = mine[p].id
      <3>1. mine[p].id # Genesis
        BY <1>0
      <3> QED  BY <1>1, <2>3, <3>1 DEF Places, Distinct
    <2> QED  BY <2>1, <2>2, <2>3 DEF Writes
  <1>3. \A i \in DOMAIN file' : file'[i].id = Genesis \/ file'[i].id = mine[p].id
                                \/ (i # n /\ i \in DOMAIN file /\ file'[i] = file[i])
    BY <1>1, <1>2
  <1>4. pc[p] \in Busy
    BY DEF Writes
  <1>5. \A q \in Proc : q # p /\ pc[q] \in Busy => mine[q].id # mine[p].id /\ mine[q].id # Genesis
    BY <1>0, <1>4 DEF Numbers
  <1>6. Known'
    <2> SUFFICES ASSUME NEW i \in DOMAIN file'
                 PROVE  file'[i].id \in Ids(made) \/ (file'[i].id = Genesis /\ ~ Readable(file'[i]))
      BY <1>0 DEF Known, Readable
    <2>1. CASE i = n
      BY <1>0, <1>1, <1>2, <2>1
    <2>2. CASE i # n
      BY <1>1, <2>2 DEF Places, Known
    <2> QED  BY <2>1, <2>2
  <1>7. Distinct'
    <2> SUFFICES ASSUME NEW i \in DOMAIN file', NEW j \in DOMAIN file',
                        file'[i].id = file'[j].id, file'[i].id # Genesis
                 PROVE  i = j
      BY DEF Distinct
    <2>1. CASE i # n /\ j # n
      BY <1>1, <2>1 DEF Places, Distinct
    <2>2. CASE i = n \/ j = n
      BY <1>1, <1>2, <2>2
    <2> QED  BY <2>1, <2>2
  <1>8. Unwritten'
    <2> SUFFICES ASSUME NEW q \in Proc, pc'[q] \in {"write", "retry all"}, NEW i \in DOMAIN file'
                 PROVE  file'[i].id # mine[q].id
      BY <1>0 DEF Unwritten
    <2>1. q # p /\ pc[q] \in {"write", "retry all"} /\ pc[q] \in Busy
      BY <1>0 DEF Busy, Retrying
    <2>2. mine[q].id # mine[p].id /\ mine[q].id # Genesis
      BY <1>5, <2>1
    <2> QED  BY <1>3, <2>1, <2>2 DEF Places, Unwritten
  <1>9. Begun'
    <2> SUFFICES ASSUME NEW q \in Proc, pc'[q] \in {"half", "retry rest"}, NEW i \in DOMAIN file',
                        file'[i].id = mine[q].id
                 PROVE  i = n /\ file'[i] = Line(mine[q], "torn")
      BY <1>0 DEF Begun, n, Line
    <2>1. CASE q # p
      <3>1. pc[q] \in {"half", "retry rest"} /\ pc[q] \in Busy
        BY <1>0, <2>1 DEF Busy, Retrying
      <3>2. mine[q].id # mine[p].id /\ mine[q].id # Genesis
        BY <1>5, <2>1, <3>1
      <3>3. i # n /\ i \in DOMAIN file /\ file[i].id = mine[q].id
        BY <1>3, <3>2
      <3>4. i = Len(file) /\ file[i] = Line(mine[q], "torn")
        BY <3>1, <3>3 DEF Places, Begun
      <3>5. file # <<>>
        BY <1>0, <3>3, Inhabited
      <3>6. ~ Ended(file[i])
        <4>1. ~ Ended(Line(mine[q], "torn"))
          BY DEF Ended, Line
        <4> QED  BY <3>4, <4>1
      <3> QED  BY <1>1, <3>3, <3>4, <3>5, <3>6 DEF Writes, Puts
    <2>2. CASE q = p
      <3>1. s = "half" /\ pc[p] = "write"
        BY <1>0, <2>2
      <3>2. mine[p].id # Genesis
        BY <1>0
      <3>3. Adds(l) /\ l = Line(mine[p], "torn")
        <4>1. l.id # Genesis
          <5>1. SUFFICES ASSUME l.id = Genesis PROVE FALSE
            OBVIOUS
          <5>2. i # n /\ i \in DOMAIN file /\ file[i].id = mine[p].id
            BY <1>1, <2>2, <3>2, <5>1
          <5> QED  BY <3>1, <5>2 DEF Places, Unwritten
        <4> QED  BY <3>1, <4>1 DEF Writes
      <3>4. i = n
        BY <1>1, <2>2, <3>1, <3>3 DEF Places, Unwritten
      <3> QED  BY <1>1, <2>2, <3>3, <3>4
    <2> QED  BY <2>1, <2>2
  <1>10. Nonempty'
    BY <1>1 DEF Nonempty
  <1> QED  BY <1>6, <1>7, <1>8, <1>9, <1>10 DEF Places

LEMMA PlacesStep ==
    ASSUME ChainTypes, Numbers, Places, NEW p \in Proc, Moves(p)
    PROVE  Places'
  BY MovesAre, KeepsPlaces, WritesPlaces

------------------------------------------------------------------------------
LEMMA CountStep ==
    ASSUME ChainTypes, NEW p \in Proc, Locks(p)
    PROVE  /\ made' \in 0..MaxRecords
           /\ mine' \in [Proc -> [id : Nat, prev : Nat, lines : Nat]]
  <1> DEFINE r == [id |-> made + 1, lines |-> Len(file),
                   prev |-> IF file = <<>> THEN Genesis ELSE Last(file).id]
  <1>1. made \in 0..MaxRecords /\ made' = made + 1 /\ made < MaxRecords /\ MaxRecords \in Nat
    BY ChainAssumption DEF ChainTypes, Locks
  <1>2. Len(file) \in Nat
    BY LenProperties DEF ChainTypes
  <1>3. file # <<>> => Last(file).id \in Nat
    <2> SUFFICES ASSUME file # <<>> PROVE Last(file).id \in Nat
      OBVIOUS
    <2>1. Len(file) # 0 /\ file \in Seq(Lines) /\ DOMAIN file = 1..Len(file)
      BY EmptySeq, LenProperties DEF ChainTypes
    <2>2. Len(file) \in DOMAIN file
      BY <1>2, <2>1
    <2>3. file[Len(file)] \in Lines
      BY <2>1, <2>2
    <2>4. \A l \in Lines : l.id \in Nat
      BY DEF Lines
    <2> QED  BY <2>3, <2>4 DEF Last
  <1>4. r \in [id : Nat, prev : Nat, lines : Nat]
    <2>1. (IF file = <<>> THEN Genesis ELSE Last(file).id) \in Nat
      BY <1>3 DEF Genesis
    <2> HIDE DEF Genesis
    <2> QED  BY <1>1, <1>2, <2>1
  <1>5. mine' = [mine EXCEPT ![p] = r] /\ mine \in [Proc -> [id : Nat, prev : Nat, lines : Nat]]
    BY DEF Locks, ChainTypes
  <1> HIDE DEF r
  <1> QED  BY <1>1, <1>4, <1>5

LEMMA EntriesStep ==
    ASSUME ChainTypes, NEW p \in Proc, Moves(p)
    PROVE  entries' \in [Proc -> Seq(Nat)]
  <1>1. PICK e \in {entries[p], <<>>, Loaded, Append(entries[p], mine[p].id)} :
            entries' = [entries EXCEPT ![p] = e] \/ entries' = entries
    BY DEF Moves, Opens, Locks, Begins, Finishes, Raises, Closes, Reflects, Dies
  <1>2. entries \in [Proc -> Seq(Nat)] /\ mine[p] \in [id : Nat, prev : Nat, lines : Nat]
    BY DEF ChainTypes
  <1>3. entries[p] \in Seq(Nat) /\ mine[p].id \in Nat
    BY <1>2
  <1>4. e \in Seq(Nat)
    <2>1. Append(entries[p], mine[p].id) \in Seq(Nat)
      BY <1>3, AppendProperties
    <2>2. Loaded \in Seq(Nat)
      BY LoadedTyped DEF ChainTypes
    <2>3. <<>> \in Seq(Nat)
      BY EmptySeq
    <2> QED  BY <1>1, <1>3, <2>1, <2>2, <2>3
  <1> QED  BY <1>1, <1>2, <1>4

LEMMA TypesStep ==
    ASSUME ChainTypes, NEW p \in Proc, Moves(p)
    PROVE  ChainTypes'
  <1>1. PICK s \in Stages : Keeps(p, s) \/ \E l \in Lines : Writes(p, s, l)
    BY MovesAre
  <1>2. file' \in Seq(Lines)
    <2>1. CASE Keeps(p, s)
      BY <2>1 DEF Keeps, ChainTypes
    <2>2. CASE \E l \in Lines : Writes(p, s, l)
      <3>1. PICK l \in Lines : Puts(l)
        BY <2>2 DEF Writes
      <3> QED  BY <3>1, PutsIs DEF ChainTypes
    <2> QED  BY <1>1, <2>1, <2>2
  <1>3. pc' \in [Proc -> Stages]
    <2>1. pc' = [pc EXCEPT ![p] = s]
      BY <1>1 DEF Keeps, Writes
    <2> QED  BY <2>1 DEF ChainTypes
  <1>4. holder' \in Proc \cup {Nobody}
    BY DEF ChainTypes, Moves, Opens, Locks, Begins, Finishes, Raises, Closes, Reflects, Dies
  <1>5. /\ made' \in 0..MaxRecords
        /\ mine' \in [Proc -> [id : Nat, prev : Nat, lines : Nat]]
    <2>1. CASE Locks(p)
      BY <2>1, CountStep
    <2>2. CASE ~ Locks(p)
      <3>1. made' = made /\ mine' = mine
        BY <1>1, <2>2 DEF Keeps, Writes
      <3> QED  BY <3>1 DEF ChainTypes
    <2> QED  BY <2>1, <2>2
  <1>6. entries' \in [Proc -> Seq(Nat)]
    BY EntriesStep
  <1>7. acked' \subseteq Nat /\ failed' \subseteq Nat
    <2>1. mine[p] \in [id : Nat, prev : Nat, lines : Nat]
      BY DEF ChainTypes
    <2>2. mine[p].id \in Nat
      BY <2>1
    <2>3. acked' \subseteq acked \cup {mine[p].id} /\ failed' \subseteq failed \cup {mine[p].id}
      BY DEF Moves, Opens, Locks, Begins, Finishes, Raises, Closes, Reflects, Dies
    <2> QED  BY <2>2, <2>3 DEF ChainTypes
  <1> QED  BY <1>2, <1>3, <1>4, <1>5, <1>6, <1>7 DEF ChainTypes

(* Stuttering changes nothing that the invariants speak of.                *)
LEMMA Core ==
    ASSUME ChainTypes, Numbers, Places, [Next]_vars
    PROVE  ChainTypes' /\ Numbers' /\ Places'
  <1>1. CASE Next
    <2>1. PICK p \in Proc : Moves(p)
      BY <1>1, Kinds DEF Places, Moves
    <2> QED  BY <2>1, TypesStep, NumbersStep, PlacesStep
  <1>2. CASE UNCHANGED vars
    BY <1>2 DEF vars, ChainTypes, Numbers, Places, Known, Distinct, Unwritten, Begun, Nonempty,
                Readable, Line, Ids
  <1> QED  BY <1>1, <1>2

LEMMA CoreInit ==
    ASSUME Init
    PROVE  ChainTypes /\ Numbers /\ Places
  <1>1. /\ file = <<>> /\ made = 0 /\ holder = Nobody /\ entries = [p \in Proc |-> <<>>]
        /\ pc = [p \in Proc |-> "down"] /\ acked = {} /\ failed = {}
        /\ mine = [p \in Proc |-> Blank]
    BY DEF Init
  <1>2. \A p \in Proc : pc[p] = "down"
    BY <1>1
  <1>3. \A p \in Proc : pc[p] \notin Busy /\ pc[p] \in Stages /\ pc[p] \notin Retrying
    BY <1>2 DEF Busy, Retrying, Stages
  <1>4. Numbers
    BY <1>1, <1>2, <1>3 DEF Numbers
  <1>5. \A i \in DOMAIN file : FALSE
    BY <1>1
  <1>6. Places
    <2>1. Known
      BY <1>5 DEF Known
    <2>2. Distinct
      BY <1>5 DEF Distinct
    <2>3. Unwritten
      BY <1>2 DEF Unwritten
    <2>4. Begun
      BY <1>2 DEF Begun
    <2>5. Nonempty
      BY <1>2 DEF Nonempty
    <2> QED  BY <2>1, <2>2, <2>3, <2>4, <2>5 DEF Places
  <1>7. ChainTypes
    <2>1. file \in Seq(Lines) /\ <<>> \in Seq(Nat)
      BY <1>1, EmptySeq
    <2>2. made \in 0..MaxRecords
      BY <1>1, ChainAssumption
    <2>3. Blank \in [id : Nat, prev : Nat, lines : Nat]
      BY DEF Blank, Genesis
    <2>4. mine \in [Proc -> [id : Nat, prev : Nat, lines : Nat]]
      BY <1>1, <2>3
    <2>5. pc \in [Proc -> Stages]
      BY <1>1, <1>2, <1>3
    <2>6. entries \in [Proc -> Seq(Nat)]
      BY <1>1, <2>1
    <2> QED  BY <1>1, <2>1, <2>2, <2>4, <2>5, <2>6 DEF ChainTypes
  <1> QED  BY <1>4, <1>6, <1>7

(* The variables keep their types, and of two processes that are appending *)
(* only the one that holds the flock has its record's text in the file.    *)
THEOREM ChainCore == Spec => [](ChainTypes /\ Numbers /\ Places)
  <1> QED  BY CoreInit, Core, PTL DEF Spec

------------------------------------------------------------------------------
(* A link that verify rejects, and the late records that explain it.       *)
BrokenAt(f, i) ==
    /\ Readable(f[i]) /\ (i > 1 => Readable(f[i - 1]))
    /\ f[i].prev # IF i = 1 THEN Genesis ELSE f[i - 1].id
Late(f, late) ==
    \A i \in DOMAIN f : BrokenAt(f, i) => f[i].id \in late \/ (i > 1 /\ f[i - 1].id \in late)

LEMMA LateIs == OnlyLateRecordsBreak <=> Late(file, failed)
  BY DEF OnlyLateRecordsBreak, Late, Broken, BrokenAt

LEMMA LateMore ==
    ASSUME NEW f, NEW S, NEW T, S \subseteq T, Late(f, S)
    PROVE  Late(f, T)
  BY DEF Late

LEMMA BehindMore ==
    ASSUME NEW f, NEW n, NEW prev, NEW S, NEW T, S \subseteq T, Behind(f, n, prev, S)
    PROVE  Behind(f, n, prev, T)
  BY DEF Behind

LEMMA Earlier ==
    ASSUME file \in Seq(Lines), NEW l \in Lines, Puts(l)
    PROVE  /\ \A i \in DOMAIN file' : i \in Nat /\ (i > 1 <=> i # 1)
           /\ \A i \in DOMAIN file' : i # 1 => i - 1 \in DOMAIN file /\ file'[i - 1] = file[i - 1]
           /\ Len(file') \in Nat /\ Len(file') # 0
           /\ Adds(l) => Len(file') - 1 = Len(file)
           /\ Turns(l) => Len(file') = Len(file)
  <1> DEFINE n == Len(file')
  <1>1. /\ file' \in Seq(Lines) /\ n \in DOMAIN file'
        /\ \A i \in DOMAIN file' : i # n => i \in DOMAIN file /\ file'[i] = file[i]
    BY PutsIs
  <1>2. DOMAIN file' = 1..n /\ n \in Nat
    BY <1>1, LenProperties
  <1> HIDE DEF n
  <1>3. \A i \in DOMAIN file' : i \in Nat /\ (i > 1 <=> i # 1)
    BY <1>2
  <1>4. \A i \in DOMAIN file' : i # 1 => i - 1 \in DOMAIN file' /\ i - 1 # n
    BY <1>2
  <1>5. n # 0
    BY <1>1, <1>2
  <1>6. Adds(l) => n - 1 = Len(file)
    <2> SUFFICES ASSUME Adds(l) PROVE n - 1 = Len(file)
      OBVIOUS
    <2>1. n = Len(file) + 1 /\ Len(file) \in Nat
      BY AddsIs DEF n
    <2> QED  BY <2>1
  <1>7. Turns(l) => n = Len(file)
    BY TurnsIs DEF n
  <1> QED  BY <1>1, <1>2, <1>3, <1>4, <1>5, <1>6, <1>7 DEF n

LEMMA LatePut ==
    ASSUME file \in Seq(Lines), NEW l \in Lines, Puts(l), NEW S, NEW T, S \subseteq T, Late(file, S),
           ~ Readable(l) \/ l.id \in T \/ Behind(file, Len(file') - 1, l.prev, S)
    PROVE  Late(file', T)
  <1> DEFINE n == Len(file')
  <1>1. /\ n \in DOMAIN file' /\ file'[n] = l
        /\ \A i \in DOMAIN file' : i # n => i \in DOMAIN file /\ file'[i] = file[i]
    BY PutsIs
  <1>2. /\ \A i \in DOMAIN file' : i \in Nat /\ (i > 1 <=> i # 1)
        /\ \A i \in DOMAIN file' : i # 1 => i - 1 \in DOMAIN file /\ file'[i - 1] = file[i - 1]
    BY Earlier
  <1>3. ~ Readable(l) \/ l.id \in T \/ Behind(file, n - 1, l.prev, S)
    OBVIOUS
  <1> HIDE DEF n
  <1> SUFFICES ASSUME NEW i \in DOMAIN file', BrokenAt(file', i)
               PROVE  file'[i].id \in T \/ (i > 1 /\ file'[i - 1].id \in T)
    BY DEF Late
  <1>4. CASE i # n
    <2>1. i \in DOMAIN file /\ file'[i] = file[i]
      BY <1>1, <1>4
    <2>2. BrokenAt(file, i)
      BY <1>2, <2>1 DEF BrokenAt
    <2> QED  BY <1>2, <2>1, <2>2 DEF Late
  <1>5. CASE i = n
    <2>1. Readable(l)
      BY <1>1, <1>5 DEF BrokenAt
    <2>2. CASE l.id \in T
      BY <1>1, <1>5, <2>2
    <2>3. CASE Behind(file, n - 1, l.prev, S)
      <3>1. CASE i = 1
        <4>1. n - 1 = 0
          BY <1>5, <3>1
        <4>2. l.prev = Genesis
          BY <2>3, <4>1 DEF Behind
        <4> QED  BY <1>1, <1>5, <3>1, <4>2 DEF BrokenAt
      <3>2. CASE i # 1
        <4>0. n \in Nat /\ n # 1 /\ i > 1 /\ file'[n - 1] = file[n - 1]
          BY <1>2, <1>5, <3>2
        <4>1. n - 1 # 0 /\ i > 1 /\ file'[n - 1] = file[n - 1]
          BY <4>0
        <4>2. Readable(file[n - 1]) /\ file[n - 1].id # l.prev
          BY <1>1, <1>5, <3>2, <4>1 DEF BrokenAt
        <4>3. file[n - 1].id \in S
          BY <2>3, <4>1, <4>2 DEF Behind
        <4> QED  BY <1>5, <4>1, <4>3
      <3> QED  BY <3>1, <3>2
    <2> QED  BY <1>3, <2>1, <2>2, <2>3
  <1> QED  BY <1>4, <1>5

LEMMA BehindPut ==
    ASSUME file \in Seq(Lines), NEW l \in Lines, Puts(l), NEW S, ~ Readable(l) \/ l.id \in S, NEW prev
    PROVE  Behind(file', Len(file'), prev, S)
  <1>1. file'[Len(file')] = l
    BY PutsIs
  <1>2. Len(file') # 0
    BY Earlier
  <1> QED  BY <1>1, <1>2 DEF Behind

LEMMA BehindAdds ==
    ASSUME file \in Seq(Lines), NEW l \in Lines, Puts(l), Adds(l), NEW S, NEW prev,
           Behind(file, Len(file), prev, S)
    PROVE  Behind(file', Len(file') - 1, prev, S)
  <1> DEFINE n == Len(file')
  <1>1. /\ n \in Nat /\ n # 0 /\ n - 1 = Len(file) /\ n \in DOMAIN file'
        /\ \A i \in DOMAIN file' : i # 1 => file'[i - 1] = file[i - 1]
    BY Earlier, PutsIs
  <1> HIDE DEF n
  <1>2. CASE n = 1
    <2>1. n - 1 = 0
      BY <1>2
    <2> QED  BY <1>1, <2>1 DEF Behind, n
  <1>3. CASE n # 1
    <2>1. file'[n - 1] = file[n - 1] /\ n \in Nat
      BY <1>1, <1>3
    <2>2. n - 1 # 0
      BY <1>3, <2>1
    <2> QED  BY <1>1, <2>1, <2>2 DEF Behind, n
  <1> QED  BY <1>2, <1>3

------------------------------------------------------------------------------
LEMMA FailedGrows ==
    ASSUME NEW p \in Proc, Moves(p)
    PROVE  failed \subseteq failed'
  BY DEF Moves, Opens, Locks, Begins, Finishes, Raises, Closes, Reflects, Dies

(* A process that writes while another one holds the flock is late.        *)
LEMMA OthersAreLate ==
    ASSUME Numbers, NEW p \in Proc, NEW q \in Proc, p # q, pc[q] \in {"write", "half"},
           pc[p] \in Busy, pc[p] # "reflect"
    PROVE  mine[p].id \in failed
  <1>1. pc[p] \notin {"write", "half"}
    BY DEF Numbers
  <1>2. pc[p] \in Retrying
    BY <1>1 DEF Busy
  <1> QED  BY <1>2 DEF Numbers

LEMMA LateStep ==
    ASSUME ChainTypes, Numbers, Places, Tails, Late(file, failed), NEW p \in Proc, Moves(p)
    PROVE  Late(file', failed')
  <1>0. failed \subseteq failed' /\ file \in Seq(Lines)
    BY FailedGrows DEF ChainTypes
  <1>1. PICK s \in Stages : Keeps(p, s) \/ \E l \in Lines : Writes(p, s, l)
    BY MovesAre
  <1>2. CASE Keeps(p, s)
    <2>1. file' = file
      BY <1>2 DEF Keeps
    <2> QED  BY <1>0, <2>1, LateMore
  <1>3. ASSUME NEW l \in Lines, Writes(p, s, l)
        PROVE  Late(file', failed')
    <2>0. Puts(l)
      BY <1>3 DEF Writes
    <2>1. CASE ~ Readable(l)
      BY <1>0, <2>0, <2>1, LatePut
    <2>2. CASE l.id = mine[p].id /\ pc[p] \in Retrying
      <3>1. l.id \in failed'
        BY <1>0, <2>2 DEF Numbers
      <3> QED  BY <1>0, <2>0, <3>1, LatePut
    <2>3. CASE l = Line(mine[p], "torn")
      <3>1. ~ Readable(l)
        BY <2>3 DEF Readable, Line
      <3> QED  BY <1>0, <2>0, <3>1, LatePut
    <2>4. CASE /\ Turns(l) /\ pc[p] = "half" /\ l.prev = mine[p].prev
               /\ Last(file).id = mine[p].id
      <3>1. Last(file) = file[Len(file)] /\ Len(file) \in DOMAIN file /\ file # <<>>
        BY <1>0, <2>0, <2>4, PutsIs, TurnsIs
      <3>2. Written(p)
        BY <2>4, <3>1 DEF Places, Begun, Written
      <3>3. Behind(file, Len(file) - 1, l.prev, failed)
        BY <2>4, <3>2 DEF Tails
      <3>4. Behind(file, Len(file') - 1, l.prev, failed)
        <4>1. Len(file') = Len(file)
          BY <1>0, <2>0, <2>4, Earlier
        <4> QED  BY <3>3, <4>1
      <3> QED  BY <1>0, <2>0, <3>4, LatePut
    <2> QED  BY <1>3, <2>1, <2>2, <2>3, <2>4 DEF Writes, Retrying
  <1> QED  BY <1>1, <1>2, <1>3

LEMMA LocksBehind ==
    ASSUME ChainTypes, NEW p \in Proc, Locks(p)
    PROVE  Behind(file', Len(file'), mine'[p].prev, failed')
  <1> DEFINE r == [id |-> made + 1, lines |-> Len(file),
                   prev |-> IF file = <<>> THEN Genesis ELSE Last(file).id]
  <1>1. file' = file /\ mine' = [mine EXCEPT ![p] = r] /\ p \in DOMAIN mine
    BY DEF Locks, ChainTypes
  <1>2. r.prev = IF file = <<>> THEN Genesis ELSE Last(file).id
    OBVIOUS
  <1> HIDE DEF r
  <1>3. mine'[p].prev = IF file = <<>> THEN Genesis ELSE Last(file).id
    BY <1>1, <1>2
  <1>4. Len(file) = 0 <=> file = <<>>
    BY EmptySeq DEF ChainTypes
  <1> QED  BY <1>1, <1>3, <1>4 DEF Behind, Last

LEMMA TailsStep ==
    ASSUME ChainTypes, Numbers, Places, Tails, NEW p \in Proc, Moves(p)
    PROVE  Tails'
  <1>0. /\ failed \subseteq failed' /\ file \in Seq(Lines) /\ pc \in [Proc -> Stages]
        /\ DOMAIN mine = Proc /\ mine[p].id \in Nat
    <2>1. mine[p] \in [id : Nat, prev : Nat, lines : Nat]
      BY DEF ChainTypes
    <2> QED  BY <2>1, FailedGrows DEF ChainTypes
  <1>1. PICK s \in Stages : Keeps(p, s) \/ \E l \in Lines : Writes(p, s, l)
    BY MovesAre
  <1>2. pc' = [pc EXCEPT ![p] = s] /\ \A q \in Proc : pc'[q] = IF q = p THEN s ELSE pc[q]
    BY <1>0, <1>1 DEF Keeps, Writes
  <1>3. CASE Keeps(p, s)
    <2>1. file' = file /\ (~ Locks(p) => mine' = mine /\ s \notin {"write", "half"})
      BY <1>3 DEF Keeps
    <2>2. \A q \in Proc : q # p => mine'[q] = mine[q]
      BY <1>0, <1>3 DEF Keeps, Locks
    <2>3. ASSUME NEW q \in Proc, pc'[q] = "write"
          PROVE  Behind(file', Len(file'), mine'[q].prev, failed')
      <3>1. CASE q = p
        BY <1>2, <2>1, <2>3, <3>1, LocksBehind
      <3>2. CASE q # p
        <4>1. Behind(file, Len(file), mine[q].prev, failed)
          BY <1>2, <2>3, <3>2 DEF Tails
        <4> QED  BY <1>0, <2>1, <2>2, <3>2, <4>1, BehindMore
      <3> QED  BY <3>1, <3>2
    <2>4. ASSUME NEW q \in Proc, pc'[q] = "half", Written(q)'
          PROVE  Behind(file', Len(file') - 1, mine'[q].prev, failed')
      <3>1. q # p
        BY <1>2, <1>3, <2>4 DEF Keeps
      <3>2. Written(q) /\ pc[q] = "half"
        BY <1>2, <2>1, <2>2, <2>4, <3>1 DEF Written, Line
      <3>3. Behind(file, Len(file) - 1, mine[q].prev, failed)
        BY <3>2 DEF Tails
      <3> QED  BY <1>0, <2>1, <2>2, <3>1, <3>3, BehindMore
    <2> QED  BY <2>3, <2>4 DEF Tails, Behind, Readable
  <1>4. ASSUME NEW l \in Lines, Writes(p, s, l)
        PROVE  Tails'
    <2>0. Puts(l) /\ mine' = mine /\ pc[p] \in Busy /\ file'[Len(file')] = l
      BY <1>0, <1>4, PutsIs DEF Writes
    <2>1. (l.id = Genesis /\ ~ Readable(l)) \/ (l.id = mine[p].id /\ pc[p] # "reflect")
      BY <1>4 DEF Writes
    <2>2. ASSUME NEW q \in Proc, pc'[q] = "write"
          PROVE  Behind(file', Len(file'), mine'[q].prev, failed')
      <3>1. q # p /\ pc[q] = "write"
        BY <1>2, <1>4, <2>2 DEF Writes
      <3>2. ~ Readable(l) \/ l.id \in failed'
        BY <1>0, <2>0, <2>1, <3>1, OthersAreLate
      <3> QED  BY <1>0, <2>0, <3>2, BehindPut
    <2>3. ASSUME NEW q \in Proc, pc'[q] = "half", Written(q)'
          PROVE  Behind(file', Len(file') - 1, mine'[q].prev, failed')
      <3>1. l.id = mine[q].id
        BY <2>0, <2>3 DEF Written, Line
      <3>2. Genesis # mine[p].id /\ \A r \in Proc : pc[r] \in Busy => mine[r].id # Genesis
        BY IdsGrow, <2>0, SMTT(30) DEF ChainTypes, Numbers, Ids, Genesis
      <3>3. pc[q] \in Busy
        BY <1>2, <1>4, <2>3 DEF Writes, Busy
      <3>4. q = p
        BY <2>0, <2>1, <3>1, <3>2, <3>3 DEF Numbers
      <3>5. s = "half" /\ pc[p] = "write"
        BY <1>2, <1>4, <2>3, <3>4 DEF Writes
      <3>6. Adds(l)
        BY <1>4, <3>1, <3>2, <3>4, <3>5 DEF Writes
      <3>7. Behind(file, Len(file), mine[p].prev, failed)
        BY <3>5 DEF Tails
      <3>8. Behind(file, Len(file), mine[p].prev, failed')
        BY <1>0, <3>7, BehindMore
      <3>9. Behind(file', Len(file') - 1, mine[p].prev, failed')
        BY <1>0, <2>0, <3>6, <3>8, BehindAdds
      <3> QED  BY <2>0, <3>4, <3>9
    <2> QED  BY <2>2, <2>3 DEF Tails, Behind, Readable
  <1> QED  BY <1>1, <1>3, <1>4


LEMMA Links ==
    ASSUME ChainTypes, Numbers, Places, Tails, OnlyLateRecordsBreak, [Next]_vars
    PROVE  Tails' /\ OnlyLateRecordsBreak'
  <1>1. CASE Next
    <2>1. PICK p \in Proc : Moves(p)
      BY <1>1, Kinds DEF Places, Moves
    <2>2. Late(file, failed)
      BY LateIs
    <2>3. Tails' /\ Late(file', failed')
      BY <2>1, <2>2, TailsStep, LateStep
    <2>4. OnlyLateRecordsBreak' <=> Late(file', failed')
      BY DEF OnlyLateRecordsBreak, Late, Broken, BrokenAt, Readable
    <2> QED  BY <2>3, <2>4
  <1>2. CASE UNCHANGED vars
    BY <1>2 DEF vars, Tails, Behind, Written, Line, Readable, OnlyLateRecordsBreak, Broken
  <1> QED  BY <1>1, <1>2

(* Whatever the interleaving of the writers and however many of them raise *)
(* or die, only a record whose append had raised stands at a broken link.  *)
THEOREM ChainNeverForks == Spec => []OnlyLateRecordsBreak
  <1>1. Init => Tails /\ OnlyLateRecordsBreak
    <2> SUFFICES ASSUME Init PROVE Tails /\ OnlyLateRecordsBreak
      OBVIOUS
    <2>1. file = <<>> /\ \A p \in Proc : pc[p] = "down"
      BY DEF Init
    <2>2. \A i \in DOMAIN file : FALSE
      BY <2>1
    <2> QED  BY <2>1, <2>2 DEF Tails, OnlyLateRecordsBreak
  <1> QED  BY <1>1, ChainCore, Links, PTL DEF Spec

------------------------------------------------------------------------------
LEMMA LastIsLast ==
    ASSUME file \in Seq(Lines), NEW l \in Lines, Puts(l)
    PROVE  \A i, j \in DOMAIN file' : i < j => i # Len(file')
  <1>1. file' \in Seq(Lines)
    BY PutsIs
  <1>2. DOMAIN file' = 1..Len(file') /\ Len(file') \in Nat
    BY <1>1, LenProperties
  <1> QED  BY <1>2

LEMMA OnePut ==
    ASSUME file \in Seq(Lines), NEW l \in Lines, Puts(l), NEW G, NEW H, H \subseteq G,
           One(file, G), l.id \notin H
    PROVE  One(file', H)
  <1> DEFINE n == Len(file')
  <1>1. /\ file'[n] = l
        /\ \A i \in DOMAIN file' : i # n => i \in DOMAIN file /\ file'[i] = file[i]
        /\ \A i, j \in DOMAIN file' : i < j => i # n
    BY PutsIs, LastIsLast
  <1> HIDE DEF n
  <1> SUFFICES ASSUME NEW i \in DOMAIN file', NEW j \in DOMAIN file', NEW k \in DOMAIN file',
                      i < j, j < k, ~ Readable(file'[i])
               PROVE  file'[j].id \notin H \/ file'[k].id \notin H
    BY DEF One
  <1>2. CASE k = n
    BY <1>1, <1>2
  <1>3. CASE k # n
    <2>1. /\ i \in DOMAIN file /\ j \in DOMAIN file /\ k \in DOMAIN file
          /\ file'[i] = file[i] /\ file'[j] = file[j] /\ file'[k] = file[k]
      BY <1>1, <1>3
    <2> QED  BY <2>1 DEF One
  <1> QED  BY <1>2, <1>3

LEMMA NonePut ==
    ASSUME file \in Seq(Lines), NEW l \in Lines, Puts(l), NEW G, NEW H, H \subseteq G,
           None(file, G), l.id \notin H
    PROVE  None(file', H)
  <1> DEFINE n == Len(file')
  <1>1. /\ file'[n] = l
        /\ \A i \in DOMAIN file' : i # n => i \in DOMAIN file /\ file'[i] = file[i]
        /\ \A i, j \in DOMAIN file' : i < j => i # n
    BY PutsIs, LastIsLast
  <1> HIDE DEF n
  <1> SUFFICES ASSUME NEW i \in DOMAIN file', NEW j \in DOMAIN file', i < j, ~ Readable(file'[i])
               PROVE  file'[j].id \notin H
    BY DEF None
  <1>2. CASE j = n
    BY <1>1, <1>2
  <1>3. CASE j # n
    <2>1. /\ i \in DOMAIN file /\ j \in DOMAIN file
          /\ file'[i] = file[i] /\ file'[j] = file[j]
      BY <1>1, <1>3
    <2> QED  BY <2>1 DEF None
  <1> QED  BY <1>2, <1>3

LEMMA OneFirst ==
    ASSUME file \in Seq(Lines), NEW l \in Lines, Puts(l), NEW G, NEW H, None(file, G),
           \A i \in DOMAIN file' : i # Len(file') /\ file'[i].id \in H => file'[i].id \in G
    PROVE  One(file', H)
  <1> DEFINE n == Len(file')
  <1>1. /\ \A i \in DOMAIN file' : i # n => i \in DOMAIN file /\ file'[i] = file[i]
        /\ \A i, j \in DOMAIN file' : i < j => i # n
        /\ \A i \in DOMAIN file' : i # n /\ file'[i].id \in H => file'[i].id \in G
    BY PutsIs, LastIsLast
  <1> HIDE DEF n
  <1> SUFFICES ASSUME NEW i \in DOMAIN file', NEW j \in DOMAIN file', NEW k \in DOMAIN file',
                      i < j, j < k, ~ Readable(file'[i]), file'[j].id \in H
               PROVE  FALSE
    BY DEF One
  <1>2. /\ i \in DOMAIN file /\ j \in DOMAIN file /\ file'[i] = file[i] /\ file'[j] = file[j]
        /\ file'[j].id \in G
    BY <1>1
  <1> QED  BY <1>2 DEF None

LEMMA GoodStep ==
    ASSUME ChainTypes, Numbers, NEW p \in Proc, NEW s, Moves(p),
           pc' = [pc EXCEPT ![p] = s]
    PROVE  /\ Good' \subseteq Good \cup {mine[p].id}
           /\ s # "reflect" => Good' \subseteq Good
           /\ pc[p] \in Busy /\ pc[p] # "reflect" => mine[p].id \notin Good
           /\ Good \subseteq Ids(made)
  <1>0. pc \in [Proc -> Stages] /\ DOMAIN mine = Proc
    BY DEF ChainTypes
  <1>1. \A q \in Proc : pc'[q] = IF q = p THEN s ELSE pc[q]
    BY <1>0
  <1>2. \A q \in Proc : q # p => mine'[q] = mine[q]
    BY <1>0 DEF Moves, Opens, Locks, Begins, Finishes, Raises, Closes, Reflects, Dies
  <1>3. s = "reflect" => mine' = mine
    <2>1. ~ Locks(p) => mine' = mine
      BY DEF Moves, Opens, Begins, Finishes, Raises, Closes, Reflects, Dies
    <2>2. Locks(p) => pc'[p] = "write"
      BY <1>0 DEF Locks
    <2> QED  BY <1>1, <2>1, <2>2
  <1>4. acked' \subseteq acked \/ (pc[p] = "reflect" /\ acked' \subseteq acked \cup {mine[p].id})
    BY DEF Moves, Opens, Locks, Begins, Finishes, Raises, Closes, Reflects, Dies
  <1>5. Good' \subseteq Good \cup {mine[p].id}
    <2> SUFFICES ASSUME NEW r \in Good' PROVE r \in Good \/ r = mine[p].id
      OBVIOUS
    <2>1. CASE r \in acked'
      BY <1>4, <2>1 DEF Good
    <2>2. ASSUME NEW q \in Proc, pc'[q] = "reflect", r = mine'[q].id
          PROVE  r \in Good \/ r = mine[p].id
      BY <1>1, <1>2, <1>3, <2>2 DEF Good
    <2> QED  BY <2>1, <2>2 DEF Good
  <1>6. ASSUME s # "reflect" PROVE Good' \subseteq Good
    <2> SUFFICES ASSUME NEW r \in Good' PROVE r \in Good
      OBVIOUS
    <2>1. CASE r \in acked'
      BY <1>4, <2>1 DEF Good
    <2>2. ASSUME NEW q \in Proc, pc'[q] = "reflect", r = mine'[q].id
          PROVE  r \in Good
      BY <1>1, <1>2, <1>6, <2>2 DEF Good
    <2> QED  BY <2>1, <2>2 DEF Good
  <1>7. ASSUME pc[p] \in Busy, pc[p] # "reflect" PROVE mine[p].id \notin Good
    BY <1>7 DEF Good, Numbers, Busy
  <1>8. Good \subseteq Ids(made)
    BY DEF Good, Numbers, Busy
  <1> QED  BY <1>5, <1>6, <1>7, <1>8

LEMMA OutrunStep ==
    ASSUME ChainTypes, Numbers, Places, Outrun, NEW p \in Proc, Moves(p)
    PROVE  Outrun'
  <1>1. PICK s \in Stages : Keeps(p, s) \/ \E l \in Lines : Writes(p, s, l)
    BY MovesAre
  <1>2. pc' = [pc EXCEPT ![p] = s]
    BY <1>1 DEF Keeps, Writes
  <1>3. \A q \in Proc : pc'[q] = IF q = p THEN s ELSE pc[q]
    BY <1>2 DEF ChainTypes
  <1>4. /\ Good' \subseteq Good \cup {mine[p].id}
        /\ s # "reflect" => Good' \subseteq Good
        /\ pc[p] \in Busy /\ pc[p] # "reflect" => mine[p].id \notin Good
        /\ Good \subseteq Ids(made)
    BY <1>2, GoodStep
  <1>5. file \in Seq(Lines)
    BY DEF ChainTypes
  <1> DEFINE H == Good'
  <1>6. SUFFICES One(file', H) /\ \A q \in Proc : pc'[q] \in {"write", "half"} => None(file', H)
    BY DEF Outrun, One, None, Readable
  <1>7. CASE Keeps(p, s)
    <2>1. file' = file /\ H \subseteq Good
      BY <1>4, <1>7 DEF Keeps
    <2> HIDE DEF H
    <2>2. One(file', H)
      BY <2>1 DEF Outrun, One
    <2>3. ASSUME NEW q \in Proc, pc'[q] \in {"write", "half"}
          PROVE  None(file', H)
      <3>1. CASE q # p
        <4>1. None(file, Good)
          BY <1>3, <2>3, <3>1 DEF Outrun
        <4> QED  BY <2>1, <4>1 DEF None
      <3>2. CASE q = p
        <4>1. ~ Damaged
          BY <1>3, <1>7, <2>3, <3>2 DEF Keeps, Locks
        <4> QED  BY <2>1, <4>1 DEF Damaged, None
      <3> QED  BY <3>1, <3>2
    <2> QED  BY <2>2, <2>3
  <1>8. ASSUME NEW l \in Lines, Writes(p, s, l)
        PROVE  One(file', H) /\ \A q \in Proc : pc'[q] \in {"write", "half"} => None(file', H)
    <2>1. /\ Puts(l) /\ pc[p] \in Busy /\ pc[p] # "reflect" /\ mine' = mine
          /\ pc'[p] \in {"write", "half"} => pc[p] \in {"write", "half"}
          /\ l.id = Genesis \/ l.id = mine[p].id
      BY <1>3, <1>8 DEF Writes
    <2>2. Genesis \notin Ids(made)
      BY DEF Ids, Genesis
    <2>3. l.id \notin Good
      BY <1>4, <2>1, <2>2
    <2>4. CASE s # "reflect"
      <3>1. H \subseteq Good
        BY <1>4, <2>4
      <3> HIDE DEF H
      <3>2. One(file', H)
        BY <1>5, <2>1, <2>3, <3>1, OnePut DEF Outrun
      <3>3. ASSUME NEW q \in Proc, pc'[q] \in {"write", "half"}
            PROVE  None(file', H)
        <4>1. pc[q] \in {"write", "half"}
          BY <1>3, <2>1, <3>3
        <4> QED  BY <1>5, <2>1, <2>3, <3>1, <4>1, NonePut DEF Outrun
      <3> QED  BY <3>2, <3>3
    <2>5. CASE s = "reflect"
      <3>1. pc[p] = "half"
        <4>1. pc'[p] = "reflect"
          BY <1>3, <2>5
        <4> QED  BY <2>1, <4>1 DEF Moves, Opens, Locks, Begins, Finishes, Raises, Closes, Reflects,
                                   Dies, ChainTypes
      <3>2. None(file, Good)
        BY <3>1 DEF Outrun
      <3>3. ASSUME NEW i \in DOMAIN file', i # Len(file'), file'[i].id \in H
            PROVE  file'[i].id \in Good
        <4>1. i \in DOMAIN file /\ file'[i] = file[i]
          BY <1>5, <2>1, <3>3, PutsIs
        <4>2. SUFFICES ASSUME file[i].id = mine[p].id PROVE FALSE
          BY <1>4, <3>3, <4>1
        <4>3. i = Len(file) /\ file[i] = Line(mine[p], "torn")
          BY <3>1, <4>1, <4>2 DEF Places, Begun
        <4>4. ~ Ended(Line(mine[p], "torn"))
          BY DEF Ended, Line
        <4>5. file # <<>>
          BY <1>5, <4>1, Inhabited
        <4> QED  BY <1>5, <2>1, <3>3, <4>3, <4>4, <4>5, PutsIs DEF Puts
      <3>4. One(file', H)
        <4> HIDE DEF H
        <4> QED  BY <1>5, <2>1, <3>2, <3>3, OneFirst
      <3>5. \A q \in Proc : pc'[q] \notin {"write", "half"}
        BY <1>3, <2>5, <3>1 DEF Numbers
      <3> QED  BY <3>4, <3>5
    <2> QED  BY <2>4, <2>5
  <1> QED  BY <1>1, <1>7, <1>8

LEMMA Outruns ==
    ASSUME ChainTypes, Numbers, Places, Outrun, [Next]_vars
    PROVE  Outrun'
  <1>1. CASE Next
    <2>1. PICK p \in Proc : Moves(p)
      BY <1>1, Kinds DEF Places, Moves
    <2> QED  BY <2>1, OutrunStep
  <1>2. CASE UNCHANGED vars
    BY <1>2 DEF vars, Outrun, One, None, Good, Readable
  <1> QED  BY <1>1, <1>2

(* Behind an unreadable line at most one append ever returns, that of the  *)
(* writer which had read the file before the damage was done.              *)
THEOREM ChainFailsClosed == Spec => []OneWriterOutrunsDamage
  <1>1. Init => Outrun
    <2> SUFFICES ASSUME Init PROVE Outrun
      OBVIOUS
    <2>1. \A i \in DOMAIN file : FALSE
      BY DEF Init
    <2> QED  BY <2>1 DEF Outrun, One, None
  <1>2. Outrun => OneWriterOutrunsDamage
    BY DEF Outrun, One, Good, OneWriterOutrunsDamage
  <1> QED  BY <1>1, <1>2, ChainCore, Outruns, PTL DEF Spec

------------------------------------------------------------------------------
(* The records of f stand where they stood, with the same links.           *)
Same(f, g) ==
    /\ Len(f) <= Len(g)
    /\ \A i \in 1..Len(f) : g[i].id = f[i].id /\ g[i].prev = f[i].prev

LEMMA LensAre ==
    ASSUME NEW f \in Seq(Lines)
    PROVE  Len(f) \in Nat /\ DOMAIN f = 1..Len(f) /\ \A i \in 1..Len(f) : f[i] \in Lines /\ f[i].id \in Nat
  <1>1. Len(f) \in Nat /\ DOMAIN f = 1..Len(f)
    BY LenProperties
  <1>2. \A i \in 1..Len(f) : f[i] \in Lines
    BY <1>1
  <1>3. \A l \in Lines : l.id \in Nat
    BY DEF Lines
  <1> QED  BY <1>1, <1>2, <1>3

LEMMA SpoiledStays ==
    ASSUME NEW f \in Seq(Lines), NEW g \in Seq(Lines), Same(f, g), Spoiled(f)
    PROVE  Spoiled(g)
  <1>1. /\ Len(f) \in Nat /\ DOMAIN f = 1..Len(f) /\ Len(g) \in Nat /\ DOMAIN g = 1..Len(g)
        /\ Len(f) <= Len(g)
    BY LensAre DEF Same
  <1>2. PICK i \in DOMAIN f : f[i].id = Genesis \/ f[i].prev # IF i = 1 THEN Genesis ELSE f[i - 1].id
    BY DEF Spoiled
  <1>3. i \in DOMAIN g /\ g[i].id = f[i].id /\ g[i].prev = f[i].prev
    BY <1>1 DEF Same
  <1>4. CASE i = 1
    BY <1>2, <1>3, <1>4 DEF Spoiled
  <1>5. CASE i # 1
    <2>1. i - 1 \in 1..Len(f)
      BY <1>1, <1>5
    <2>2. g[i - 1].id = f[i - 1].id
      BY <2>1 DEF Same
    <2> QED  BY <1>2, <1>3, <1>5, <2>2 DEF Spoiled
  <1> QED  BY <1>4, <1>5

LEMMA PutSame ==
    ASSUME file \in Seq(Lines), NEW l \in Lines, Puts(l),
           Turns(l) => l.id = Last(file).id /\ l.prev = Last(file).prev
    PROVE  Same(file, file')
  <1>1. CASE Adds(l)
    BY <1>1, AddsIs DEF Same
  <1>2. CASE Turns(l)
    <2>1. /\ Len(file) \in Nat /\ Len(file') = Len(file) /\ file'[Len(file)] = l
          /\ Last(file) = file[Len(file)]
          /\ \A i \in 1..Len(file) : i # Len(file) => file'[i] = file[i]
      BY <1>2, TurnsIs
    <2>2. Len(file) <= Len(file')
      BY <2>1
    <2>3. \A i \in 1..Len(file) : file'[i].id = file[i].id /\ file'[i].prev = file[i].prev
      BY <1>2, <2>1
    <2> QED  BY <2>2, <2>3 DEF Same
  <1> QED  BY <1>1, <1>2 DEF Puts

LEMMA PutSpoils ==
    ASSUME file \in Seq(Lines), NEW l \in Lines, Puts(l), l.id = Genesis
    PROVE  Spoiled(file')
  <1>1. Len(file') \in DOMAIN file' /\ file'[Len(file')].id = Genesis
    BY PutsIs
  <1> QED  BY <1>1 DEF Spoiled

LEMMA ViewSame ==
    ASSUME NEW f \in Seq(Lines), NEW g \in Seq(Lines), Same(f, g), NEW e \in Seq(Nat), View(f, e)
    PROVE  View(g, e)
  <1>1. /\ Len(f) \in Nat /\ Len(g) \in Nat /\ Len(e) \in Nat
        /\ Len(f) <= Len(g) /\ Len(e) <= Len(f)
    BY LensAre, LenProperties DEF Same, View
  <1>2. \A i \in 1..Len(e) : i \in 1..Len(f) /\ e[i] = f[i].id
    BY <1>1 DEF View
  <1>3. \A i \in 1..Len(e) : e[i] = g[i].id
    BY <1>2 DEF Same
  <1>4. Len(e) <= Len(g)
    BY <1>1
  <1> QED  BY <1>3, <1>4 DEF View

LEMMA ViewLoaded ==
    ASSUME NEW f \in Seq(Lines)
    PROVE  View(f, LoadedOf(f))
  <1>1. PICK m \in 0..Len(f) : LoadedOf(f) = [i \in 1..m |-> f[i].id]
    BY LoadedHas
  <1>2. Len(f) \in Nat /\ \A i \in 1..Len(f) : f[i].id \in Nat
    BY LensAre
  <1>3. m \in Nat /\ m <= Len(f) /\ \A i \in 1..m : i \in 1..Len(f)
    BY <1>2
  <1>4. Len(LoadedOf(f)) = m /\ \A i \in 1..m : LoadedOf(f)[i] = f[i].id
    BY <1>1, <1>3
  <1> QED  BY <1>3, <1>4 DEF View

LEMMA ViewAppend ==
    ASSUME NEW f \in Seq(Lines), NEW e \in Seq(Nat), NEW m \in [id : Nat, prev : Nat, lines : Nat],
           View(f, e), Short(e, m), AtReflect(f, m), ~ (m.lines > Len(e))
    PROVE  View(f, Append(e, m.id))
  <1> DEFINE k == Len(e)
  <1>1. k \in Nat /\ Len(f) \in Nat /\ m.lines \in Nat /\ m.id \in Nat
    BY LensAre, LenProperties
  <1>2. m.lines = k
    BY <1>1 DEF Short
  <1>3. k + 1 <= Len(f) /\ f[k + 1].id = m.id
    BY <1>2 DEF AtReflect
  <1>4. /\ Len(Append(e, m.id)) = k + 1 /\ Append(e, m.id)[k + 1] = m.id
        /\ \A i \in 1..k : Append(e, m.id)[i] = e[i]
    BY <1>1, AppendProperties
  <1>5. \A i \in 1..k : e[i] = f[i].id
    BY DEF View
  <1> HIDE DEF k
  <1>6. \A i \in 1..(k + 1) : i = k + 1 \/ i \in 1..k
    BY <1>1
  <1> QED  BY <1>3, <1>4, <1>5, <1>6 DEF View

LEMMA WriteSame ==
    ASSUME NEW f \in Seq(Lines), NEW g \in Seq(Lines), Same(f, g),
           NEW m \in [id : Nat, prev : Nat, lines : Nat], AtWrite(f, m)
    PROVE  AtWrite(g, m)
  <1>1. /\ Len(f) \in Nat /\ Len(g) \in Nat /\ m.lines \in Nat
        /\ Len(f) <= Len(g) /\ m.lines <= Len(f)
    BY LensAre DEF Same, AtWrite
  <1>2. m.lines <= Len(g) /\ (m.lines # 0 => m.lines \in 1..Len(f))
    BY <1>1
  <1>3. m.lines # 0 => g[m.lines].id = f[m.lines].id
    BY <1>2 DEF Same
  <1> QED  BY <1>2, <1>3 DEF AtWrite

LEMMA ReflectSame ==
    ASSUME NEW f \in Seq(Lines), NEW g \in Seq(Lines), Same(f, g),
           NEW m \in [id : Nat, prev : Nat, lines : Nat], AtReflect(f, m)
    PROVE  AtReflect(g, m)
  <1>1. /\ Len(f) \in Nat /\ Len(g) \in Nat /\ m.lines \in Nat
        /\ Len(f) <= Len(g) /\ m.lines + 1 <= Len(f)
    BY LensAre DEF Same, AtReflect
  <1>2. m.lines + 1 <= Len(g) /\ m.lines + 1 \in 1..Len(f)
    BY <1>1
  <1>3. g[m.lines + 1].id = f[m.lines + 1].id
    BY <1>2 DEF Same
  <1> QED  BY <1>2, <1>3 DEF AtReflect

LEMMA HalfTurns ==
    ASSUME file \in Seq(Lines), NEW l \in Lines, Turns(l),
           NEW m \in [id : Nat, prev : Nat, lines : Nat], AtHalf(file, m), l.id = m.id
    PROVE  AtReflect(file', m)
  <1>1. Len(file) \in Nat /\ Len(file') = Len(file) /\ file'[Len(file)] = l
    BY TurnsIs
  <1>2. Len(file) = m.lines + 1
    BY DEF AtHalf
  <1> QED  BY <1>1, <1>2 DEF AtReflect

(* A record that was built before others were flushed late does not link.  *)
LEMMA WriteAdds ==
    ASSUME file \in Seq(Lines), NEW m \in [id : Nat, prev : Nat, lines : Nat],
           Torn(m) \in Lines, Torn(m).prev = m.prev, Adds(Torn(m)), AtWrite(file, m),
           ~ Spoiled(file), ~ Spoiled(file'), Distinct
    PROVE  AtHalf(file', m)
  <1> DEFINE n == Len(file)
  <1>1. /\ n \in Nat /\ Len(file') = n + 1 /\ DOMAIN file = 1..n /\ DOMAIN file' = 1..(n + 1)
        /\ file'[n + 1] = Torn(m) /\ \A i \in 1..n : file'[i] = file[i]
    BY AddsIs
  <1>2. m.lines \in Nat /\ m.lines <= n
    BY DEF AtWrite
  <1> HIDE DEF n
  <1>3. m.lines = n
    <2> SUFFICES ASSUME m.lines # n PROVE FALSE
      OBVIOUS
    <2>1. n \in 1..n /\ n + 1 \in DOMAIN file' /\ n + 1 # 1 /\ (n + 1) - 1 = n
      BY <1>1, <1>2
    <2>2. file'[n + 1].prev = file'[(n + 1) - 1].id
      BY <2>1 DEF Spoiled
    <2>3. m.prev = file[n].id
      BY <1>1, <2>1, <2>2
    <2>4. file[n].id # Genesis
      BY <1>1, <2>1 DEF Spoiled
    <2>5. m.lines # 0 /\ m.prev = file[m.lines].id
      BY <2>3, <2>4 DEF AtWrite
    <2>6. m.lines \in 1..n
      BY <1>1, <1>2, <2>5
    <2> QED  BY <1>1, <2>1, <2>3, <2>4, <2>5, <2>6 DEF Distinct
  <1> QED  BY <1>1, <1>3 DEF AtHalf

------------------------------------------------------------------------------
LEMMA HalfAlone ==
    ASSUME file \in Seq(Lines), NEW l \in Lines, Puts(l),
           NEW m \in [id : Nat, prev : Nat, lines : Nat], AtHalf(file, m),
           ~ Ended(Torn(m)), Turns(l) => l.id = Last(file).id
    PROVE  Turns(l) /\ l.id = Torn(m).id
  <1>1. Len(file) = m.lines + 1 /\ file[Len(file)] = Torn(m) /\ m.lines \in Nat
    BY DEF AtHalf
  <1>2. file # <<>>
    <2>1. Len(file) # 0
      BY <1>1
    <2> QED  BY <2>1, EmptySeq
  <1>3. Turns(l)
    BY <1>1, <1>2, PutsIs DEF Puts
  <1> QED  BY <1>1, <1>3, PutsIs

LEMMA LocksAt ==
    ASSUME ChainTypes, NEW p \in Proc, Locks(p), View(file, entries[p])
    PROVE  AtWrite(file', mine'[p]) /\ Short(entries'[p], mine'[p])
  <1> DEFINE r == [id |-> made + 1, lines |-> Len(file),
                   prev |-> IF file = <<>> THEN Genesis ELSE Last(file).id]
  <1>1. file' = file /\ mine' = [mine EXCEPT ![p] = r] /\ p \in DOMAIN mine /\ entries' = entries
    BY DEF Locks, ChainTypes
  <1>2. r.lines = Len(file) /\ r.prev = IF file = <<>> THEN Genesis ELSE Last(file).id
    OBVIOUS
  <1> HIDE DEF r
  <1>3. mine'[p] = r
    BY <1>1
  <1>4. (Len(file) = 0 <=> file = <<>>) /\ Len(file) \in Nat
    BY EmptySeq, LenProperties DEF ChainTypes
  <1>5. AtWrite(file, r)
    BY <1>2, <1>4 DEF AtWrite, Last
  <1>6. Short(entries[p], r)
    BY <1>2 DEF Short, View
  <1> QED  BY <1>1, <1>3, <1>5, <1>6

LEMMA WritesSame ==
    ASSUME ChainTypes, NEW p \in Proc, NEW s, NEW l \in Lines, Writes(p, s, l), ~ Spoiled(file')
    PROVE  /\ Same(file, file') /\ l.id = mine[p].id /\ Puts(l)
           /\ Turns(l) => l.id = Last(file).id
           /\ s = "half" => Adds(l) /\ l = Torn(mine[p])
           /\ s = "reflect" => Turns(l)
  <1>1. Puts(l) /\ file \in Seq(Lines)
    BY DEF Writes, ChainTypes
  <1>2. l.id # Genesis
    BY <1>1, PutSpoils
  <1>3. ~ (Adds(l) /\ Turns(l))
    <2>1. Adds(l) => file = <<>> \/ Ended(Last(file))
      BY DEF Adds
    <2>2. Turns(l) => file # <<>> /\ ~ Ended(Last(file))
      BY DEF Turns
    <2> QED  BY <2>1, <2>2
  <1>4. l.id = mine[p].id /\ (Turns(l) => l.id = Last(file).id /\ l.prev = Last(file).prev)
    BY <1>2, <1>3 DEF Writes
  <1>5. s = "half" => Adds(l) /\ l = Torn(mine[p])
    BY <1>2 DEF Writes, Torn
  <1>6. s = "reflect" => Turns(l)
    BY <1>2 DEF Writes
  <1> QED  BY <1>1, <1>4, <1>5, <1>6, PutSame

LEMMA OwnView ==
    ASSUME ChainTypes, ChainTypes', NEW p \in Proc, Moves(p), Same(file, file'),
           View(file, entries[p]), Tracks(p)
    PROVE  View(file', entries'[p])
  <1>1. /\ file \in Seq(Lines) /\ file' \in Seq(Lines) /\ entries \in [Proc -> Seq(Nat)]
        /\ mine[p] \in [id : Nat, prev : Nat, lines : Nat] /\ entries[p] \in Seq(Nat)
    BY DEF ChainTypes
  <1>2. \/ entries'[p] = entries[p]
        \/ entries'[p] = <<>>
        \/ file' = file /\ entries'[p] = Loaded
        \/ /\ file' = file /\ pc[p] = "reflect" /\ ~ (mine[p].lines > Len(entries[p]))
           /\ entries'[p] = Append(entries[p], mine[p].id)
    BY <1>1 DEF Moves, Opens, Locks, Begins, Finishes, Raises, Closes, Reflects, Dies
  <1>3. CASE entries'[p] = entries[p]
    BY <1>1, <1>3, ViewSame
  <1>4. CASE entries'[p] = <<>>
    <2>1. Len(entries'[p]) = 0 /\ Len(file') \in Nat
      BY <1>1, <1>4, EmptySeq, LensAre
    <2> QED  BY <2>1 DEF View
  <1>5. CASE file' = file /\ entries'[p] = Loaded
    <2>1. Loaded = LoadedOf(file)
      BY DEF Loaded, LoadedOf
    <2> QED  BY <1>1, <1>5, <2>1, ViewLoaded
  <1>6. CASE /\ file' = file /\ pc[p] = "reflect" /\ ~ (mine[p].lines > Len(entries[p]))
             /\ entries'[p] = Append(entries[p], mine[p].id)
    <2>1. Short(entries[p], mine[p]) /\ AtReflect(file, mine[p])
      BY <1>6 DEF Tracks
    <2>2. View(file, Append(entries[p], mine[p].id))
      BY <1>1, <1>6, <2>1, ViewAppend
    <2> QED  BY <1>6, <2>2
  <1> QED  BY <1>2, <1>3, <1>4, <1>5, <1>6

LEMMA OwnTracks ==
    ASSUME ChainTypes, Places, NEW p \in Proc, Moves(p), NEW s, pc'[p] = s,
           Keeps(p, s) \/ \E l \in Lines : Writes(p, s, l),
           View(file, entries[p]), Tracks(p), ~ Spoiled(file), ~ Spoiled(file')
    PROVE  Tracks(p)'
  <1>1. /\ file \in Seq(Lines) /\ entries \in [Proc -> Seq(Nat)] /\ DOMAIN mine = Proc
        /\ mine[p] \in [id : Nat, prev : Nat, lines : Nat]
        /\ {"torn"} \subseteq Forms
    BY DEF ChainTypes, Forms
  <1>2. s \in {"write", "half", "reflect"} => entries'[p] = entries[p]
    BY <1>1 DEF Moves, Opens, Locks, Begins, Finishes, Raises, Closes, Reflects, Dies, ChainTypes
  <1>3. CASE s = "write"
    <2>1. Locks(p)
      BY <1>3 DEF Keeps, Writes
    <2>2. AtWrite(file', mine'[p]) /\ Short(entries'[p], mine'[p])
      BY <2>1, LocksAt
    <2> QED  BY <1>3, <2>2 DEF Tracks, AtWrite, Short
  <1>4. CASE s = "half"
    <2>1. PICK l \in Lines : Writes(p, s, l)
      BY <1>4 DEF Keeps
    <2>2. Adds(l) /\ l = Torn(mine[p]) /\ pc[p] = "write" /\ mine' = mine
      BY <1>4, <2>1, WritesSame DEF Writes
    <2>3. AtWrite(file, mine[p]) /\ Short(entries[p], mine[p])
      BY <2>2 DEF Tracks
    <2>4. Torn(mine[p]).prev = mine[p].prev
      BY <1>1, LineFacts DEF Torn
    <2>5. AtHalf(file', mine[p])
      BY <1>1, <2>2, <2>3, <2>4, WriteAdds DEF Places
    <2>6. AtHalf(file', mine'[p]) /\ Short(entries'[p], mine'[p])
      BY <1>2, <1>4, <2>2, <2>3, <2>5
    <2> QED  BY <1>4, <2>6 DEF Tracks, AtHalf, Short, Torn, Line
  <1>5. CASE s = "reflect"
    <2>1. PICK l \in Lines : Writes(p, s, l)
      BY <1>5 DEF Keeps
    <2>2. pc[p] = "half"
      BY <1>5 DEF Moves, Opens, Locks, Begins, Finishes, Raises, Closes, Reflects, Dies, ChainTypes
    <2>3. Turns(l) /\ l.id = mine[p].id /\ mine' = mine
      BY <1>5, <2>1, WritesSame DEF Writes
    <2>4. AtHalf(file, mine[p]) /\ Short(entries[p], mine[p])
      BY <2>2 DEF Tracks
    <2>5. AtReflect(file', mine[p])
      BY <1>1, <2>3, <2>4, HalfTurns
    <2>6. AtReflect(file', mine'[p]) /\ Short(entries'[p], mine'[p])
      BY <1>2, <1>5, <2>3, <2>4, <2>5
    <2> QED  BY <1>5, <2>6 DEF Tracks, AtReflect, Short
  <1>6. CASE s \notin {"write", "half", "reflect"}
    BY <1>6 DEF Tracks
  <1> QED  BY <1>3, <1>4, <1>5, <1>6

------------------------------------------------------------------------------
LEMMA OthersTrack ==
    ASSUME ChainTypes, ChainTypes', Numbers, NEW p \in Proc, NEW q \in Proc, q # p, Moves(p),
           NEW s, Keeps(p, s) \/ \E l \in Lines : Writes(p, s, l),
           ~ Spoiled(file'), Same(file, file'), View(file, entries[q]), Tracks(q)
    PROVE  View(file', entries'[q]) /\ Tracks(q)'
  <1>1. /\ file \in Seq(Lines) /\ file' \in Seq(Lines) /\ entries[q] \in Seq(Nat)
        /\ mine[q] \in [id : Nat, prev : Nat, lines : Nat]
    BY DEF ChainTypes
  <1>2. /\ entries'[q] = entries[q] /\ mine'[q] = mine[q] /\ pc'[q] = pc[q]
    BY DEF Moves, Opens, Locks, Begins, Finishes, Raises, Closes, Reflects, Dies, ChainTypes
  <1>3. View(file', entries'[q])
    BY <1>1, <1>2, ViewSame
  <1>4. pc[q] = "write" => AtWrite(file', mine[q])
    BY <1>1, WriteSame DEF Tracks
  <1>5. pc[q] = "reflect" => AtReflect(file', mine[q])
    BY <1>1, ReflectSame DEF Tracks
  <1>6. ASSUME pc[q] = "half" PROVE AtHalf(file', mine[q])
    <2>1. CASE Keeps(p, s)
      BY <1>6, <2>1 DEF Keeps, Tracks
    <2>2. ASSUME NEW l \in Lines, Writes(p, s, l) PROVE FALSE
      <3>1. Puts(l) /\ l.id = mine[p].id /\ (Turns(l) => l.id = Last(file).id)
        BY <2>2, WritesSame
      <3>2. ~ Ended(Torn(mine[q])) /\ Torn(mine[q]).id = mine[q].id
        BY DEF Ended, Torn, Line
      <3>3. AtHalf(file, mine[q])
        BY <1>6 DEF Tracks
      <3>4. l.id = Torn(mine[q]).id
        BY <1>1, <3>1, <3>2, <3>3, HalfAlone
      <3>5. mine[p].id # mine[q].id
        BY <1>6, <2>2 DEF Numbers, Writes, Busy
      <3> QED  BY <3>1, <3>2, <3>4, <3>5
    <2> QED  BY <2>1, <2>2
  <1>7. pc[q] \in {"write", "half", "reflect"} => Short(entries[q], mine[q])
    BY DEF Tracks
  <1>8. /\ pc'[q] \in {"write", "half", "reflect"} => Short(entries'[q], mine'[q])
        /\ pc'[q] = "write" => AtWrite(file', mine'[q])
        /\ pc'[q] = "half" => AtHalf(file', mine'[q])
        /\ pc'[q] = "reflect" => AtReflect(file', mine'[q])
    BY <1>2, <1>4, <1>5, <1>6, <1>7
  <1> QED  BY <1>3, <1>8 DEF Tracks, Short, AtWrite, AtHalf, AtReflect, Torn, Line

LEMMA ViewsStep ==
    ASSUME ChainTypes, ChainTypes', Numbers, Places, Views, NEW p \in Proc, Moves(p)
    PROVE  Views'
  <1>1. SUFFICES ASSUME ~ Spoiled(file')
                 PROVE  \A q \in Proc : View(file', entries'[q]) /\ Tracks(q)'
    BY DEF Views, Spoiled, View
  <1>2. PICK s \in Stages : Keeps(p, s) \/ \E l \in Lines : Writes(p, s, l)
    BY MovesAre
  <1>3. file \in Seq(Lines) /\ file' \in Seq(Lines) /\ pc'[p] = s
    BY <1>2 DEF ChainTypes, Keeps, Writes
  <1>4. Same(file, file')
    <2>1. CASE Keeps(p, s)
      <3>1. file' = file
        BY <2>1 DEF Keeps
      <3>2. Len(file) \in Nat
        BY <1>3, LensAre
      <3>3. Same(file, file)
        BY <3>2 DEF Same
      <3> QED  BY <3>1, <3>3
    <2>2. CASE \E l \in Lines : Writes(p, s, l)
      BY <1>1, <2>2, WritesSame
    <2> QED  BY <1>2, <2>1, <2>2
  <1>5. ~ Spoiled(file)
    BY <1>1, <1>3, <1>4, SpoiledStays
  <1>6. \A q \in Proc : View(file, entries[q]) /\ Tracks(q)
    BY <1>5 DEF Views
  <1>7. View(file', entries'[p]) /\ Tracks(p)'
    BY <1>1, <1>2, <1>3, <1>4, <1>5, <1>6, OwnView, OwnTracks
  <1>8. \A q \in Proc : q # p => View(file', entries'[q]) /\ Tracks(q)'
    BY <1>1, <1>2, <1>4, <1>6, OthersTrack
  <1> QED  BY <1>7, <1>8

LEMMA Viewing ==
    ASSUME ChainTypes, ChainTypes', Numbers, Places, Views, [Next]_vars
    PROVE  Views'
  <1>1. CASE Next
    <2>1. PICK p \in Proc : Moves(p)
      BY <1>1, Kinds DEF Places, Moves
    <2> QED  BY <2>1, ViewsStep
  <1>2. CASE UNCHANGED vars
    BY <1>2, SMTT(30) DEF vars, Views, Spoiled, View, Tracks, Short, AtWrite, AtHalf, AtReflect, Torn, Line
  <1> QED  BY <1>1, <1>2

LEMMA PrefixOf ==
    ASSUME NEW f \in Seq(Lines), NEW e \in Seq(Nat), View(f, e), \A i \in DOMAIN f : Readable(f[i])
    PROVE  IsPrefix(e, LoadedOf(f))
  <1> DEFINE t == LoadedOf(f)
             k == Len(e)
  <1>1. PICK m \in 0..Len(f) : Cut(m, Len(f), Legible(f)) /\ t = [i \in 1..m |-> f[i].id]
    BY LoadedHas
  <1>2. Len(f) \in Nat /\ DOMAIN f = 1..Len(f) /\ \A i \in 1..Len(f) : f[i].id \in Nat
    BY LensAre
  <1>3. m = Len(f)
    <2> SUFFICES ASSUME m # Len(f) PROVE FALSE
      OBVIOUS
    <2>1. m + 1 \in 1..Len(f) /\ m < Len(f)
      BY <1>2
    <2>2. m + 1 \in Legible(f)
      BY <1>2, <2>1 DEF Legible
    <2> QED  BY <1>1, <2>1, <2>2 DEF Cut
  <1>4. Len(t) = Len(f) /\ \A i \in 1..Len(f) : t[i] = f[i].id
    BY <1>1, <1>2, <1>3
  <1>5. k \in Nat /\ k <= Len(f) /\ \A i \in 1..k : e[i] \in Nat /\ i \in 1..Len(f)
    <2>1. k \in Nat /\ k <= Len(f)
      BY LenProperties DEF View
    <2>2. \A i \in 1..k : e[i] \in Nat
      BY ElementOfSeq
    <2>3. \A i \in 1..k : i \in 1..Len(f)
      BY <1>2, <2>1
    <2> QED  BY <2>1, <2>2, <2>3
  <1>6. \A i \in 1..k : e[i] = t[i] /\ t[i] \in Nat
    BY <1>2, <1>4, <1>5 DEF View
  <1> HIDE DEF t, k
  <1>7. /\ SubSeq(e, 1, k) \in Seq(Nat) /\ Len(SubSeq(e, 1, k)) = k
        /\ \A i \in 1..k : SubSeq(e, 1, k)[i] = e[i]
    <2>1. /\ SubSeq(e, 1, k) \in Seq(Nat)
          /\ Len(SubSeq(e, 1, k)) = IF 1 <= k THEN k - 1 + 1 ELSE 0
          /\ \A i \in 1..(k - 1 + 1) : SubSeq(e, 1, k)[i] = e[1 + i - 1]
      BY <1>5, SubSeqProperties
    <2> QED  BY <1>5, <2>1
  <1>8. /\ SubSeq(t, 1, k) \in Seq(Nat) /\ Len(SubSeq(t, 1, k)) = k
        /\ \A i \in 1..k : SubSeq(t, 1, k)[i] = t[i]
    <2>1. /\ SubSeq(t, 1, k) \in Seq(Nat)
          /\ Len(SubSeq(t, 1, k)) = IF 1 <= k THEN k - 1 + 1 ELSE 0
          /\ \A i \in 1..(k - 1 + 1) : SubSeq(t, 1, k)[i] = t[1 + i - 1]
      BY <1>5, <1>6, SubSeqProperties
    <2> QED  BY <1>5, <2>1
  <1>9. SubSeq(e, 1, k) = SubSeq(t, 1, k)
    BY <1>6, <1>7, <1>8, SeqEqual
  <1>10. k <= Len(t)
    BY <1>4, <1>5
  <1> QED  BY <1>9, <1>10 DEF IsPrefix, t, k

LEMMA VerifiesIsUnspoiled ==
    ASSUME ChainTypes, Places, Verifies
    PROVE  ~ Spoiled(file) /\ \A i \in DOMAIN file : Readable(file[i])
  <1>1. \A i \in DOMAIN file : Readable(file[i])
    BY DEF Verifies, Damaged
  <1>2. \A i \in DOMAIN file : file[i].id # Genesis
    <2>1. Genesis \notin Ids(made)
      BY DEF Ids, Genesis
    <2> QED  BY <1>1, <2>1 DEF Places, Known
  <1>3. \A i \in DOMAIN file : file[i].prev = IF i = 1 THEN Genesis ELSE file[i - 1].id
    BY DEF Verifies, Linked
  <1> QED  BY <1>1, <1>2, <1>3 DEF Spoiled

(* A log that verifies its file vouches for no history but the file's: what*)
(* any process holds in memory is what the file begins with.               *)
THEOREM ChainViews == Spec => []ViewMatchesFile
  <1>1. Init => Views
    <2> SUFFICES ASSUME Init PROVE Views
      OBVIOUS
    <2>1. /\ file = <<>> /\ \A p \in Proc : entries[p] = <<>> /\ pc[p] = "down"
      BY DEF Init
    <2>2. \A p \in Proc : Tracks(p)
      BY <2>1 DEF Tracks
    <2>3. View(<<>>, <<>>)
      <3>1. Len(<<>>) = 0
        BY EmptySeq
      <3> QED  BY <3>1 DEF View
    <2> QED  BY <2>1, <2>2, <2>3 DEF Views
  <1>2. ChainTypes /\ Places /\ Views => ViewMatchesFile
    <2> SUFFICES ASSUME ChainTypes, Places, Views, Verifies, NEW p \in Proc
                 PROVE  IsPrefix(entries[p], Loaded)
      BY DEF ViewMatchesFile
    <2>1. ~ Spoiled(file) /\ \A i \in DOMAIN file : Readable(file[i])
      BY VerifiesIsUnspoiled
    <2>2. View(file, entries[p]) /\ file \in Seq(Lines) /\ entries[p] \in Seq(Nat)
      BY <2>1 DEF Views, ChainTypes
    <2>3. Loaded = LoadedOf(file)
      BY DEF Loaded, LoadedOf
    <2> QED  BY <2>1, <2>2, <2>3, PrefixOf
  <1> QED  BY <1>1, <1>2, ChainCore, Viewing, PTL DEF Spec

------------------------------------------------------------------------------
LEMMA CutPut ==
    ASSUME file \in Seq(Lines), NEW l \in Lines, Puts(l), Turns(l) => ~ IsWhole(Last(file)),
           NEW m, Cut(m, Len(file), Wholes(file))
    PROVE  /\ m \in Nat /\ \A i \in 1..m : i \in 1..Len(file) /\ file'[i] = file[i]
           /\ \/ Cut(m, Len(file'), Wholes(file'))
              \/ IsWhole(l) /\ Cut(m + 1, Len(file'), Wholes(file')) /\ file'[m + 1] = l
  <1> DEFINE n == Len(file')
             k == Len(file)
  <1>1. /\ file' \in Seq(Lines) /\ n \in DOMAIN file' /\ file'[n] = l
        /\ \A i \in DOMAIN file' : i # n => i \in DOMAIN file /\ file'[i] = file[i]
    BY PutsIs
  <1>2. n \in Nat /\ k \in Nat /\ DOMAIN file' = 1..n /\ DOMAIN file = 1..k
    BY <1>1, LensAre
  <1>3. (n - 1 = k \/ (n = k /\ ~ IsWhole(file[k]))) /\ n # 0
    BY Earlier, PutsIs DEF Puts
  <1>4. /\ m \in 0..k /\ (\A i \in 1..m : IsWhole(file[i]) /\ i \in 1..k)
        /\ m < k => ~ IsWhole(file[m + 1])
    <2>1. m \in 0..k /\ (m < k => m + 1 \in 1..k)
      BY <1>2 DEF Cut
    <2> QED  BY <1>2, <2>1 DEF Cut, Wholes
  <1> HIDE DEF n, k
  <1>5. m \in Nat /\ m <= n - 1
    <2>1. CASE n - 1 = k
      BY <1>2, <1>4, <2>1
    <2>2. CASE n = k /\ ~ IsWhole(file[k])
      <3>1. k # 0
        BY <1>3, <2>2
      <3>2. k \in 1..k
        BY <1>2, <3>1
      <3>3. m # k
        BY <1>4, <2>2, <3>2
      <3> QED  BY <1>2, <1>4, <2>2, <3>3
    <2> QED  BY <1>3, <2>1, <2>2
  <1>6. \A i \in 1..m : i \in 1..n /\ i # n /\ i \in 1..k
    BY <1>2, <1>4, <1>5
  <1>7. \A i \in 1..m : file'[i] = file[i] /\ i \in Wholes(file')
    BY <1>1, <1>2, <1>4, <1>6 DEF Wholes, n
  <1>8. CASE m + 1 # n
    <2>1. m + 1 \in 1..n /\ m \in 0..n /\ m < n
      BY <1>2, <1>5
    <2>2. m + 1 \in 1..k /\ file'[m + 1] = file[m + 1]
      BY <1>1, <1>2, <1>8, <2>1
    <2>3. m < k
      BY <1>2, <1>5, <2>2
    <2>4. m + 1 \notin Wholes(file')
      BY <1>4, <2>2, <2>3 DEF Wholes
    <2>5. Cut(m, n, Wholes(file'))
      BY <1>7, <2>1, <2>4 DEF Cut
    <2> QED  BY <1>5, <1>6, <1>7, <2>5 DEF n, k
  <1>9. CASE m + 1 = n
    <2>1. m \in 0..n /\ m + 1 \in 0..n /\ ~ (m + 1 < n) /\ n \in 1..n
      BY <1>2, <1>5, <1>9
    <2>2. CASE ~ IsWhole(l)
      <3>1. m + 1 \notin Wholes(file')
        BY <1>1, <1>9, <2>2 DEF Wholes
      <3>2. Cut(m, n, Wholes(file'))
        BY <1>7, <2>1, <3>1 DEF Cut
      <3> QED  BY <1>5, <1>6, <1>7, <3>2 DEF n, k
    <2>3. CASE IsWhole(l)
      <3>1. m + 1 \in Wholes(file')
        BY <1>1, <1>9, <2>1, <2>3 DEF Wholes, n
      <3>2. \A i \in 1..(m + 1) : i = m + 1 \/ i \in 1..m
        BY <1>5
      <3>3. Cut(m + 1, n, Wholes(file'))
        BY <1>7, <2>1, <3>1, <3>2 DEF Cut
      <3> QED  BY <1>1, <1>5, <1>6, <1>7, <1>9, <2>3, <3>3 DEF n, k
    <2> QED  BY <2>2, <2>3
  <1> QED  BY <1>8, <1>9

LEMMA KeptPut ==
    ASSUME file \in Seq(Lines), NEW l \in Lines, Puts(l), Turns(l) => ~ IsWhole(Last(file))
    PROVE  \/ KeptOf(file') = KeptOf(file)
           \/ IsWhole(l) /\ KeptOf(file') = Append(KeptOf(file), l.id)
  <1>1. PICK m \in 0..Len(file) :
            Cut(m, Len(file), Wholes(file)) /\ KeptOf(file) = [i \in 1..m |-> file[i].id]
    BY KeptHas
  <1>2. file' \in Seq(Lines) /\ Len(file') \in Nat
    BY PutsIs, LensAre
  <1>3. PICK n \in 0..Len(file') :
            Cut(n, Len(file'), Wholes(file')) /\ KeptOf(file') = [i \in 1..n |-> file'[i].id]
    BY <1>2, KeptHas
  <1>4. /\ m \in Nat /\ \A i \in 1..m : i \in 1..Len(file) /\ file'[i] = file[i]
        /\ \/ Cut(m, Len(file'), Wholes(file'))
           \/ IsWhole(l) /\ Cut(m + 1, Len(file'), Wholes(file')) /\ file'[m + 1] = l
    BY <1>1, CutPut
  <1>5. CASE Cut(m, Len(file'), Wholes(file'))
    <2>1. n = m
      BY <1>2, <1>3, <1>5, CutUnique
    <2>2. \A i \in 1..m : file'[i].id = file[i].id
      BY <1>4
    <2> QED  BY <1>1, <1>3, <2>1, <2>2
  <1>6. CASE IsWhole(l) /\ Cut(m + 1, Len(file'), Wholes(file')) /\ file'[m + 1] = l
    <2>1. n = m + 1
      BY <1>2, <1>3, <1>6, CutUnique
    <2> DEFINE s == [i \in 1..m |-> file[i].id]
               t == [i \in 1..(m + 1) |-> file'[i].id]
    <2>2. KeptOf(file) = s /\ KeptOf(file') = t
      BY <1>1, <1>3, <2>1
    <2>3. \A i \in 1..(m + 1) : i = m + 1 \/ i \in 1..m
      BY <1>4
    <2>4. \A i \in 1..m : file'[i].id = file[i].id /\ file[i].id \in Nat
      BY <1>4, LensAre
    <2>5. l.id \in Nat
      BY DEF Lines
    <2>6. s \in Seq(Nat) /\ Len(s) = m /\ \A i \in 1..m : s[i] = file[i].id
      BY <1>4, <2>4, SeqDef
    <2>7. t \in Seq(Nat) /\ Len(t) = m + 1 /\ t[m + 1] = l.id /\ \A i \in 1..m : t[i] = s[i]
      <3>1. \A i \in 1..(m + 1) : file'[i].id \in Nat
        BY <1>6, <2>3, <2>4, <2>5
      <3>2. m + 1 \in Nat /\ m + 1 \in 1..(m + 1) /\ \A i \in 1..m : i \in 1..(m + 1)
        BY <1>4
      <3>3. t \in [1..(m + 1) -> Nat]
        BY <3>1
      <3>4. t \in Seq(Nat) /\ Len(t) = m + 1
        BY <3>2, <3>3, SeqDef
      <3>5. t[m + 1] = l.id /\ \A i \in 1..m : t[i] = s[i]
        BY <1>6, <2>4, <3>2
      <3> QED  BY <3>4, <3>5
    <2> HIDE DEF s, t
    <2>8. /\ Append(s, l.id) \in Seq(Nat) /\ Len(Append(s, l.id)) = m + 1
          /\ Append(s, l.id)[m + 1] = l.id /\ \A i \in 1..m : Append(s, l.id)[i] = s[i]
      BY <2>5, <2>6, AppendProperties
    <2>9. \A i \in 1..(m + 1) : t[i] = Append(s, l.id)[i]
      BY <2>3, <2>7, <2>8
    <2>10. t = Append(s, l.id)
      BY <2>7, <2>8, <2>9, SeqEqual
    <2> QED  BY <1>6, <2>2, <2>10
  <1> QED  BY <1>4, <1>5, <1>6

LEMMA LogStep ==
    ASSUME ChainTypes, Numbers, Places, [Next]_vars
    PROVE  [Abstract!Next]_Kept
  <1>0. Kept = KeptOf(file) /\ Kept' = KeptOf(file')
    BY DEF Kept, KeptOf
  <1>1. CASE UNCHANGED vars
    BY <1>0, <1>1 DEF vars
  <1>2. CASE Next
    <2>1. PICK p \in Proc : Moves(p)
      BY <1>2, Kinds DEF Places, Moves
    <2>2. PICK s \in Stages : Keeps(p, s) \/ \E l \in Lines : Writes(p, s, l)
      BY <2>1, MovesAre
    <2>3. CASE Keeps(p, s)
      BY <1>0, <2>3 DEF Keeps
    <2>4. ASSUME NEW l \in Lines, Writes(p, s, l)
          PROVE  [Abstract!Next]_Kept
      <3>1. file \in Seq(Lines) /\ Puts(l) /\ (Turns(l) => ~ Ended(Last(file)))
        BY <2>4 DEF ChainTypes, Writes, Turns
      <3>2. Turns(l) => ~ IsWhole(Last(file))
        BY <3>1 DEF Ended, IsWhole
      <3>3. \/ KeptOf(file') = KeptOf(file)
            \/ IsWhole(l) /\ KeptOf(file') = Append(KeptOf(file), l.id)
        BY <3>1, <3>2, KeptPut
      <3>4. IsWhole(l) => l.id = mine[p].id /\ pc[p] \in Busy
        <4>1. IsWhole(l) => Readable(l)
          BY DEF IsWhole, Readable
        <4> QED  BY <2>4, <4>1 DEF Writes
      <3>5. IsWhole(l) => l.id \in 1..MaxRecords
        <4>1. IsWhole(l) => l.id \in Ids(made)
          BY <3>4 DEF Numbers
        <4>2. made \in 0..MaxRecords /\ MaxRecords \in Nat
          BY ChainAssumption DEF ChainTypes
        <4> QED  BY <4>1, <4>2 DEF Ids
      <3> QED  BY <1>0, <3>3, <3>5 DEF Abstract!Next, Abstract!AppendOne
    <2> QED  BY <2>2, <2>3, <2>4
  <1> QED  BY <1>1, <1>2

(* The records before the first line that is not whole are an append-only  *)
(* log, through failed writes, late flushes and crashes.                   *)
THEOREM ChainImplementsLog == Spec => LogSpec
  <1>1. Init => Abstract!Init
    <2> SUFFICES ASSUME Init PROVE Kept = <<>>
      BY DEF Abstract!Init
    <2>1. file = <<>> /\ file \in Seq(Lines) /\ Len(file) = 0
      BY EmptySeq DEF Init
    <2>2. PICK m \in 0..Len(file) : KeptOf(file) = [i \in 1..m |-> file[i].id]
      BY <2>1, KeptHas
    <2>3. m = 0
      BY <2>1, <2>2
    <2>4. Kept = [i \in 1..0 |-> file[i].id]
      BY <2>2, <2>3 DEF Kept, KeptOf
    <2>5. Kept \in Seq(Nat) /\ Len(Kept) = 0
      BY <2>4, SeqDef
    <2> QED  BY <2>5, EmptySeq
  <1> QED  BY <1>1, ChainCore, LogStep, PTL DEF Spec, LogSpec, Abstract!Spec
==============================================================================
