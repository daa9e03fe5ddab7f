--------------------------- MODULE RunLife_proofs ---------------------------
(* Proofs about RunLife, for every set of commands beside the runner.      *)
EXTENDS RunLife, TLAPS

Labels == {"unborn", "boot", "failing", "failed", "started", "attaching", "running",
           "draining", "sealing", "sealed", "leaving", "gone"}

Line == {"run_start", "run_end"}
Kind == {"none", "ls", "show", "watch", "pause", "kill"}
Place == {"idle", "pid", "fold", "tail", "ended", "raw", "verify", "read", "reread", "judge",
          "scan", "last", "refold", "full", "append", "stop", "wait", "waitTerm", "reverify",
          "reverifyTerm", "term", "kill", "done"}
Verdict == {"none", "ended", "running", "dead", "timeout", "exited", "asked", "stopped", "killed"}
Owner == {"none", "runner", "foreign"}

CommandType ==
    [kind : Kind, pc : Place, pid : BOOLEAN, raw : BOOLEAN, ok : BOOLEAN, ended : BOOLEAN,
     n : Nat, grace : BOOLEAN, offset : Nat, verdict : Verdict, early : BOOLEAN, at : Owner]

TypeOK ==
    /\ runner \in Labels
    /\ owner \in Owner
    /\ journal \in Seq(Line)
    /\ size \in Nat
    /\ pidfile \in BOOLEAN
    /\ control \in Seq({"pause", "stop"})
    /\ cmd \in [Commands -> CommandType]

(* What the files say of the runner.                                       *)
OwnerTells ==
    /\ owner = "runner" <=> runner \notin {"unborn", "gone"}
    /\ runner = "unborn" => owner = "none"

PidfileTells ==
    /\ pidfile => runner \notin Starting
    /\ runner \in {"attaching", "running", "draining", "sealing", "sealed"} => pidfile

JournalTells ==
    /\ size = 2 * Len(journal) \/ size = 2 * Len(journal) - 1
    /\ runner = "sealed" => Len(journal) > 0 /\ journal[Len(journal)] = "run_end"
    /\ runner = "leaving" => Ended

(* What a command has found out so far of the runner.                      *)
Over == runner = "gone" \/ Ended
Lost == runner = "gone" /\ ~Ended

PidTells(c) ==
    c.pc \in {"raw", "verify"} =>
        /\ c.pid => runner \notin Starting
        /\ ~c.pid /\ ~c.early => Over

ListingTells(c) ==
    c.kind = "ls" =>
        /\ c.pc \in {"verify", "read", "reread", "judge"} /\ c.pid /\ ~c.raw
             => runner = "gone"
        /\ c.pc \in {"read", "reread"} /\ ~c.ok /\ ~c.early => Over
        /\ c.pc = "judge" /\ ~c.ok /\ ~c.ended /\ ~c.early => Lost

NotAlive(c) == c.pc \in {"last", "full"} /\ ~c.early => Over
Dead(c)     == c.verdict = "dead" => c.pc = "done" /\ (~c.early => Lost)

PidStillOurs(c) ==
    /\ c.pc \in {"reverify", "reverifyTerm"} /\ c.at = "foreign" => owner = "foreign"
    /\ c.pc \in {"term", "kill"} => c.at # "foreign"

Tells(c) == PidTells(c) /\ ListingTells(c) /\ NotAlive(c) /\ Dead(c) /\ PidStillOurs(c)

LifeInv ==
    /\ TypeOK /\ OwnerTells /\ PidfileTells /\ JournalTells
    /\ \A o \in Commands : Tells(cmd[o])
-----------------------------------------------------------------------------
(* Lemmas about the journal and its size on disk.                          *)

(* A reader of the journal sees run_end if it is among the whole lines.    *)
LEMMA EndSeen ==
    ASSUME NEW j \in Seq(Line), NEW n \in Nat, n \div 2 <= Len(j)
    PROVE  Contains(SubSeq(j, 1, n \div 2), "run_end")
             <=> \E i \in 1 .. (n \div 2) : j[i] = "run_end"
<1>1. n \div 2 \in Nat
  OBVIOUS
<1>2. /\ Len(SubSeq(j, 1, n \div 2)) = n \div 2
      /\ DOMAIN SubSeq(j, 1, n \div 2) = 1 .. (n \div 2)
      /\ \A i \in 1 .. (n \div 2) : SubSeq(j, 1, n \div 2)[i] = j[i]
  BY <1>1
<1> QED
  BY <1>2 DEF Contains

(* At least as many whole lines as are visible exist.                      *)
LEMMA VisibleExist ==
    TypeOK /\ JournalTells =>
        /\ Len(journal) \in Nat
        /\ size \div 2 <= Len(journal)
        /\ size % 2 = 0 => size \div 2 = Len(journal)
        /\ Ended <=> \E i \in 1 .. (size \div 2) : journal[i] = "run_end"
<1> SUFFICES ASSUME TypeOK, JournalTells
             PROVE  /\ Len(journal) \in Nat
                    /\ size \div 2 <= Len(journal)
                    /\ size % 2 = 0 => size \div 2 = Len(journal)
                    /\ Ended <=> \E i \in 1 .. (size \div 2) : journal[i] = "run_end"
  OBVIOUS
<1>1. journal \in Seq(Line) /\ size \in Nat
  BY DEF TypeOK
<1>2. Len(journal) \in Nat /\ (size = 2 * Len(journal) \/ size = 2 * Len(journal) - 1)
  BY <1>1 DEF JournalTells
<1>3. size \div 2 <= Len(journal) /\ (size % 2 = 0 => size \div 2 = Len(journal))
  BY <1>1, <1>2
<1>4. Ended <=> \E i \in 1 .. (size \div 2) : journal[i] = "run_end"
  BY <1>1, <1>3, EndSeen DEF Ended, Lines
<1> QED
  BY <1>2, <1>3, <1>4

(* An appended line is the last one, and nothing that was seen is lost.    *)
LEMMA JournalGrows ==
    TypeOK /\ JournalTells /\ (AppendLine("run_start") \/ AppendLine("run_end")) =>
        /\ journal' \in Seq(Line) /\ size' \in Nat
        /\ size' = 2 * Len(journal') \/ size' = 2 * Len(journal') - 1
        /\ AppendLine("run_end") => Len(journal') > 0 /\ journal'[Len(journal')] = "run_end"
        /\ Ended => Ended'
<1> SUFFICES
      ASSUME TypeOK, JournalTells, NEW line \in Line, AppendLine(line)
      PROVE  /\ journal' \in Seq(Line) /\ size' \in Nat
             /\ size' = 2 * Len(journal') \/ size' = 2 * Len(journal') - 1
             /\ Len(journal') > 0 /\ journal'[Len(journal')] = line
             /\ Ended => Ended'
  BY DEF AppendLine, Line
<1>1. /\ journal \in Seq(Line) /\ size \in Nat /\ size % 2 = 0
      /\ journal' = Append(journal, line) /\ line \in Line
      /\ size' = size + 1 \/ size' = size + 2
  BY DEF TypeOK, AppendLine
<1>2. /\ Len(journal) \in Nat /\ size \div 2 = Len(journal) /\ size = 2 * Len(journal)
      /\ Ended <=> \E i \in 1 .. (size \div 2) : journal[i] = "run_end"
  BY <1>1, VisibleExist DEF JournalTells
<1>3. /\ journal' \in Seq(Line) /\ Len(journal') = Len(journal) + 1
      /\ journal'[Len(journal')] = line
      /\ \A i \in 1 .. Len(journal) : journal'[i] = journal[i]
  BY <1>1, <1>2
<1>4. /\ size' \in Nat /\ size \div 2 \in Nat /\ size' \div 2 \in Nat
      /\ size' = 2 * Len(journal') \/ size' = 2 * Len(journal') - 1
      /\ size' \div 2 <= Len(journal') /\ size \div 2 <= size' \div 2
  BY <1>1, <1>2, <1>3
<1>5. Ended' <=> \E i \in 1 .. (size' \div 2) : journal'[i] = "run_end"
  BY <1>3, <1>4, EndSeen DEF Ended, Lines
<1>6. ASSUME Ended
      PROVE  Ended'
  <2>1. PICK i \in 1 .. (size \div 2) : journal[i] = "run_end"
    BY <1>2, <1>6
  <2> DEFINE seen == size' \div 2
  <2>2. i \in Nat /\ 1 <= i /\ i <= size \div 2
    BY <1>4
  <2>3. i \in 1 .. Len(journal)
    BY <1>2, <2>2
  <2>4. seen \in Nat /\ size \div 2 <= seen /\ size \div 2 \in Nat
    BY <1>4
  <2>5. i \in 1 .. seen
    <3> HIDE DEF seen
    <3> QED
      BY <2>2, <2>4
  <2> QED
    BY <1>3, <1>5, <2>1, <2>3, <2>5
<1> QED
  BY <1>2, <1>3, <1>4, <1>6

(* A journal whose last line is run_end and whole on the disk is ended.    *)
LEMMA WholeIsSeen ==
    ASSUME TypeOK, JournalTells, size % 2 = 0, Len(journal) > 0,
           journal[Len(journal)] = "run_end"
    PROVE  Ended
<1>1. /\ Len(journal) \in Nat /\ size \div 2 = Len(journal)
      /\ Ended <=> \E i \in 1 .. (size \div 2) : journal[i] = "run_end"
  BY VisibleExist
<1>2. Len(journal) \in 1 .. (size \div 2)
  BY <1>1
<1> QED
  BY <1>1, <1>2
-----------------------------------------------------------------------------
(* What no step undoes: the start, the end of the journal, the loss of the *)
(* runner and that of its pid.                                             *)
Advances ==
    /\ runner \notin Starting => runner' \notin Starting
    /\ Ended => Ended'
    /\ runner = "gone" => runner' = "gone" /\ (Ended' => Ended)
    /\ owner = "foreign" => owner' = "foreign"

Facts == TypeOK /\ OwnerTells /\ PidfileTells /\ JournalTells

(* The steps of the commands leave the journal alone, and of the runner    *)
(* they change what a signal changes.                                      *)
LEMMA FlushAdvances ==
    ASSUME Facts, Flush
    PROVE  Facts' /\ Advances
<1>1. /\ journal \in Seq(Line) /\ size \in Nat /\ size % 2 = 1 /\ size' = size + 1
      /\ UNCHANGED <<runner, owner, stopping, read, heard, journal, pidfile, control, cmd>>
  BY DEF Facts, TypeOK, Flush, process
<1>2. /\ Len(journal) \in Nat /\ size \div 2 <= Len(journal)
      /\ Ended <=> \E i \in 1 .. (size \div 2) : journal[i] = "run_end"
      /\ size = 2 * Len(journal) - 1
  BY <1>1, VisibleExist DEF Facts, JournalTells
<1>3. /\ size' = 2 * Len(journal) /\ size' \in Nat
      /\ size' \div 2 <= Len(journal) /\ size \div 2 <= size' \div 2
  BY <1>1, <1>2
<1>4. Ended' <=> \E i \in 1 .. (size' \div 2) : journal'[i] = "run_end"
  BY <1>1, <1>3, EndSeen DEF Ended, Lines
<1>5. Ended => Ended'
  BY <1>1, <1>2, <1>3, <1>4
<1>6. runner # "gone"
  BY DEF Facts, OwnerTells, Flush
<1>7. Facts'
  BY <1>1, <1>3, <1>5 DEF Facts, TypeOK, OwnerTells, PidfileTells, JournalTells
<1> QED
  BY <1>1, <1>5, <1>6, <1>7 DEF Advances

LEMMA AppendAdvances ==
    ASSUME Facts, LoadFails \/ JournalFailure \/ JournalStart \/ JournalEnd
    PROVE  Facts' /\ Advances
<1> USE DEF At, Goto
<1>1. CASE LoadFails
  <2>1. /\ runner = "boot" /\ runner' = "failing"
        /\ UNCHANGED <<owner, stopping, read, heard, pidfile, control, cmd>>
    BY <1>1 DEF LoadFails
  <2>2. /\ journal' \in Seq(Line) /\ size' \in Nat
        /\ size' = 2 * Len(journal') \/ size' = 2 * Len(journal') - 1
        /\ Ended => Ended'
    <3>1. CASE AppendLine("run_start")
      BY <3>1, JournalGrows DEF Facts
    <3>2. CASE UNCHANGED <<journal, size>>
      BY <3>2 DEF Facts, TypeOK, JournalTells, Ended, Lines
    <3> QED
      BY <1>1, <3>1, <3>2 DEF LoadFails
  <2>3. Facts'
    BY <2>1, <2>2 DEF Facts, TypeOK, OwnerTells, PidfileTells, JournalTells, Labels, Owner, Starting
  <2> QED
    BY <2>1, <2>2, <2>3 DEF Advances, Facts, OwnerTells, Starting
<1>2. CASE JournalFailure
  <2>1. /\ runner = "failing" /\ runner' = "failed" /\ AppendLine("run_end")
        /\ UNCHANGED <<owner, stopping, read, heard, pidfile, control, cmd>>
    BY <1>2 DEF JournalFailure
  <2>2. /\ journal' \in Seq(Line) /\ size' \in Nat
        /\ size' = 2 * Len(journal') \/ size' = 2 * Len(journal') - 1
        /\ Ended => Ended'
    BY <2>1, JournalGrows DEF Facts
  <2>3. Facts'
    BY <2>1, <2>2 DEF Facts, TypeOK, OwnerTells, PidfileTells, JournalTells, Labels, Owner, Starting
  <2> QED
    BY <2>1, <2>2, <2>3 DEF Advances, Facts, OwnerTells, Starting
<1>3. CASE JournalStart
  <2>1. /\ runner = "boot" /\ runner' = "started" /\ AppendLine("run_start")
        /\ UNCHANGED <<owner, stopping, read, heard, pidfile, control, cmd>>
    BY <1>3 DEF JournalStart
  <2>2. /\ journal' \in Seq(Line) /\ size' \in Nat
        /\ size' = 2 * Len(journal') \/ size' = 2 * Len(journal') - 1
        /\ Ended => Ended'
    BY <2>1, JournalGrows DEF Facts
  <2>3. Facts'
    BY <2>1, <2>2 DEF Facts, TypeOK, OwnerTells, PidfileTells, JournalTells, Labels, Owner, Starting
  <2> QED
    BY <2>1, <2>2, <2>3 DEF Advances, Facts, OwnerTells, Starting
<1>4. CASE JournalEnd
  <2>1. /\ runner = "sealing" /\ runner' = "sealed" /\ AppendLine("run_end")
        /\ UNCHANGED <<owner, stopping, read, heard, pidfile, control, cmd>>
    BY <1>4 DEF JournalEnd
  <2>2. /\ journal' \in Seq(Line) /\ size' \in Nat
        /\ size' = 2 * Len(journal') \/ size' = 2 * Len(journal') - 1
        /\ Len(journal') > 0 /\ journal'[Len(journal')] = "run_end"
        /\ Ended => Ended'
    BY <2>1, JournalGrows DEF Facts
  <2>3. Facts'
    BY <2>1, <2>2 DEF Facts, TypeOK, OwnerTells, PidfileTells, JournalTells, Labels, Owner, Starting
  <2> QED
    BY <2>1, <2>2, <2>3 DEF Advances, Facts, OwnerTells, Starting
<1> QED
  BY <1>1, <1>2, <1>3, <1>4

(* Without a write to the journal nothing new is seen of it.               *)
LEMMA SameJournal == UNCHANGED <<journal, size>> => (Ended' <=> Ended)
BY DEF Ended, Lines

LEMMA ProcessAdvances ==
    ASSUME Facts,
           \/ Spawn \/ WritePid \/ Attach \/ PollControl \/ Teardown \/ Drained \/ RemovePid
           \/ Exit \/ Crash \/ Recycle
    PROVE  Facts' /\ Advances
<1> USE DEF At, Goto, Facts, TypeOK, OwnerTells, PidfileTells, JournalTells, Labels, Owner,
            Starting, Advances, files, process
<1>1. UNCHANGED <<journal, size, control, cmd>>
  BY DEF Spawn, WritePid, Attach, PollControl, Teardown, Drained, RemovePid, Exit, Crash, Recycle
<1>2. Ended' <=> Ended
  BY <1>1, SameJournal
<1>3. CASE Spawn
  BY <1>1, <1>2, <1>3 DEF Spawn
<1>4. CASE WritePid
  BY <1>1, <1>2, <1>4 DEF WritePid
<1>5. CASE Attach \/ PollControl \/ Teardown \/ Drained
  BY <1>1, <1>2, <1>5 DEF Attach, PollControl, Teardown, Drained
<1>6. CASE RemovePid
  <2>1. Ended
    BY <1>6, WholeIsSeen DEF RemovePid
  <2> QED
    BY <1>1, <1>2, <1>6, <2>1 DEF RemovePid
<1>7. CASE Exit \/ Crash
  BY <1>1, <1>2, <1>7 DEF Exit, Crash, Gone
<1>8. CASE Recycle
  BY <1>1, <1>2, <1>8 DEF Recycle
<1> QED
  BY <1>3, <1>4, <1>5, <1>6, <1>7, <1>8

LEMMA RunnerAdvances ==
    Facts /\ (RunnerNext \/ Crash \/ Recycle) => Facts' /\ Advances /\ UNCHANGED cmd
<1> SUFFICES ASSUME Facts, RunnerNext \/ Crash \/ Recycle
             PROVE  Facts' /\ Advances /\ UNCHANGED cmd
  OBVIOUS
<1>1. CASE Flush
  BY <1>1, FlushAdvances DEF Flush
<1>2. CASE LoadFails \/ JournalFailure \/ JournalStart \/ JournalEnd
  BY <1>2, AppendAdvances DEF LoadFails, JournalFailure, JournalStart, JournalEnd
<1>3. CASE \/ Spawn \/ WritePid \/ Attach \/ PollControl \/ Teardown \/ Drained \/ RemovePid
           \/ Exit \/ Crash \/ Recycle
  BY <1>3, ProcessAdvances
     DEF Spawn, WritePid, Attach, PollControl, Teardown, Drained, RemovePid, Exit, Crash, Recycle,
         files
<1> QED
  BY <1>1, <1>2, <1>3 DEF RunnerNext
-----------------------------------------------------------------------------
(* Places of a command.                                                    *)
LEMMA Places ==
    /\ "pid" \in Place /\ "fold" \in Place /\ "tail" \in Place /\ "verify" \in Place
    /\ "read" \in Place /\ "reread" \in Place /\ "judge" \in Place /\ "last" \in Place
    /\ "full" \in Place /\ "wait" \in Place /\ "waitTerm" \in Place /\ "raw" \in Place
    /\ "term" \in Place /\ "kill" \in Place
BY Zenon DEF Place

LEMMA FreshTyped == Fresh \in CommandType
BY DEF Fresh, CommandType, Kind, Place, Verdict, Owner

(* What a step of a command does to the commands: the others are as they   *)
(* were, and what it has found out itself holds.                           *)
Sound(o) ==
    /\ cmd' \in [Commands -> CommandType]
    /\ \A p \in Commands \ {o} : cmd'[p] = cmd[p]
    /\ Tells(cmd[o])'

LEMMA SetSound ==
    ASSUME TypeOK, NEW o \in Commands, NEW s \in CommandType, Set(o, s), Tells(s)'
    PROVE  Sound(o)
BY DEF Set, TypeOK, Sound, Tells, PidTells, ListingTells, NotAlive, Dead, PidStillOurs

LEMMA QuietIsQuiet ==
    Quietly =>
        /\ runner' = runner /\ owner' = owner /\ (Ended' <=> Ended)
        /\ UNCHANGED <<pidfile, journal, size, control>>
BY SameJournal DEF Quietly, process, files

(* A step that only reads.                                                 *)
LEMMA QuietSound ==
    ASSUME TypeOK, NEW o \in Commands, NEW s \in CommandType, Set(o, s), Quietly, Tells(s)
    PROVE  Sound(o)
<1>1. Tells(s)'
  BY QuietIsQuiet
     DEF Tells, PidTells, ListingTells, NotAlive, Dead, PidStillOurs, Over, Lost
<1> QED
  BY <1>1, SetSound

(* The verdict of a command that returns, and that it knows no more.       *)
LEMMA ReturnSound ==
    ASSUME TypeOK, NEW o \in Commands, NEW verdict \in Verdict, Returns(o, verdict),
           verdict = "dead" /\ ~cmd[o].early => Lost'
    PROVE  Sound(o)
<1> DEFINE s == [Fresh EXCEPT !.kind = cmd[o].kind, !.pc = "done", !.early = cmd[o].early,
                              !.verdict = verdict]
<1>1. cmd[o] \in CommandType /\ Fresh \in CommandType /\ "done" \in Place
  BY FreshTyped DEF TypeOK, Place
<1>2. /\ s \in CommandType
      /\ s.pc = "done" /\ s.early = cmd[o].early /\ s.verdict = verdict
  BY <1>1 DEF CommandType
<1>3. Set(o, s)
  BY DEF Returns
<1> HIDE DEF s
<1>4. /\ cmd' \in [Commands -> CommandType]
      /\ cmd'[o] = s
      /\ \A p \in Commands \ {o} : cmd'[p] = cmd[p]
  BY <1>2, <1>3 DEF Set, TypeOK
<1>5. Tells(cmd[o])'
  BY <1>2, <1>4 DEF Tells, PidTells, ListingTells, NotAlive, Dead, PidStillOurs
<1> QED
  BY <1>4, <1>5 DEF Sound

(* A command that goes on and found out nothing that lasts.                *)
LEMMA GoSound ==
    ASSUME TypeOK, NEW o \in Commands, Tells(cmd[o]), NEW next \in Place, Goes(o, next), Quietly,
           next \notin {"raw", "verify", "read", "reread", "judge", "last", "full", "term", "kill",
                        "reverify", "reverifyTerm"},
           cmd[o].pc # "done"
    PROVE  Sound(o)
<1> DEFINE s == [cmd[o] EXCEPT !.pc = next]
<1>1. cmd[o] \in CommandType
  BY DEF TypeOK
<1>2. s \in CommandType /\ Set(o, s)
  BY <1>1 DEF Goes, CommandType
<1>3. s.pc = next /\ s.verdict = cmd[o].verdict /\ s.early = cmd[o].early
  BY <1>1 DEF CommandType
<1> HIDE DEF s
<1>4. Tells(s)
  BY <1>3 DEF Tells, PidTells, ListingTells, NotAlive, Dead, PidStillOurs
<1> QED
  BY <1>2, <1>4, QuietSound

(* readPid(): the file is there only after the start, and gone again only  *)
(* when the run is over.                                                   *)
LEMMA ReadPidSound ==
    ASSUME Facts, NEW o \in Commands, Tells(cmd[o]), NEW next \in {"raw", "verify"},
           cmd[o].pc \in {"pid", "tail"}, cmd[o].kind = "ls" => next = "raw", ReadPid(o, next)
    PROVE  Sound(o)
<1> DEFINE b == runner \in Starting
           s == [cmd[o] EXCEPT !.pid = pidfile, !.early = b, !.pc = next]
<1>1. cmd[o] \in CommandType /\ pidfile \in BOOLEAN /\ TypeOK
  BY DEF Facts, TypeOK
<1>2. Set(o, s) /\ Quietly
  BY DEF ReadPid
<1>3. b \in BOOLEAN /\ (b <=> runner \in Starting) /\ next \in Place
  BY Places
<1> HIDE DEF b
<1>4. s \in CommandType
  BY <1>1, <1>3 DEF CommandType
<1>5. /\ s.kind = cmd[o].kind /\ s.pc = next /\ s.verdict = cmd[o].verdict
      /\ s.pid = pidfile /\ s.early = b
  BY <1>1 DEF CommandType
<1> HIDE DEF s
<1>6. ~pidfile /\ runner \notin Starting => Over
  BY DEF Facts, TypeOK, OwnerTells, PidfileTells, JournalTells, Labels, Starting, Over
<1>7. Tells(s)
  BY <1>3, <1>5, <1>6 DEF Facts, PidfileTells, Tells, PidTells, ListingTells, NotAlive, Dead, PidStillOurs
<1> QED
  BY <1>1, <1>2, <1>4, <1>7, QuietSound
-----------------------------------------------------------------------------
(* ls.                                                                     *)
LEMMA ListSound ==
    ASSUME Facts, NEW o \in Commands, Tells(cmd[o]), ListStep(o)
    PROVE  Sound(o)
<1> USE DEF Is
<1>c. TypeOK /\ cmd[o] \in CommandType
  BY DEF Facts, TypeOK
<1>1. CASE ListPid(o)
  BY <1>1, ReadPidSound DEF ListPid
<1>2. CASE ListRaw(o)
  <2> DEFINE b == PidAlive(o)
             s == [cmd[o] EXCEPT !.raw = b, !.pc = "verify"]
  <2>1. Set(o, s) /\ Quietly
    BY <1>2 DEF ListRaw
  <2>2. b \in BOOLEAN /\ (cmd[o].pid /\ ~b /\ runner \notin Starting => runner = "gone")
    BY <1>c DEF PidAlive, Facts, OwnerTells, Starting, CommandType
  <2> HIDE DEF b
  <2>3. s \in CommandType
    BY <1>c, <2>2, Places DEF CommandType
  <2>4. /\ s.kind = "ls" /\ s.pc = "verify" /\ s.verdict = cmd[o].verdict
        /\ s.pid = cmd[o].pid /\ s.early = cmd[o].early /\ s.raw = b
    BY <1>c, <1>2 DEF CommandType, ListRaw
  <2> HIDE DEF s
  <2>5. Tells(s)
    BY <1>2, <2>2, <2>4
       DEF ListRaw, Tells, PidTells, ListingTells, NotAlive, Dead, PidStillOurs
  <2> QED
    BY <1>c, <2>1, <2>3, <2>5, QuietSound
<1>3. CASE ListVerify(o)
  <2> DEFINE b == cmd[o].raw /\ RunnerPidAlive(o)
             s == [cmd[o] EXCEPT !.ok = b, !.pc = "read"]
  <2>1. Set(o, s) /\ Quietly
    BY <1>3 DEF ListVerify
  <2>2. b \in BOOLEAN /\ (~b /\ ~cmd[o].early => Over)
    BY <1>c, <1>3 DEF ListVerify, RunnerPidAlive, Facts, OwnerTells, Starting, CommandType, Tells,
                      PidTells, ListingTells, Over
  <2> HIDE DEF b
  <2>3. s \in CommandType
    BY <1>c, <2>2, Places DEF CommandType
  <2>4. /\ s.kind = "ls" /\ s.pc = "read" /\ s.verdict = cmd[o].verdict
        /\ s.pid = cmd[o].pid /\ s.early = cmd[o].early /\ s.raw = cmd[o].raw /\ s.ok = b
    BY <1>c, <1>3 DEF CommandType, ListVerify
  <2> HIDE DEF s
  <2>5. Tells(s)
    BY <1>3, <2>2, <2>4
       DEF ListVerify, Tells, PidTells, ListingTells, NotAlive, Dead, PidStillOurs
  <2> QED
    BY <1>c, <2>1, <2>3, <2>5, QuietSound
<1>4. CASE ListRead(o)
  <2> DEFINE b == Ended
             pc == IF cmd[o].pc = "reread" \/ b \/ cmd[o].ok THEN "judge" ELSE "reread"
             s == [cmd[o] EXCEPT !.ended = b, !.pc = pc]
  <2>1. Set(o, s) /\ Quietly
    <3>1. CASE cmd[o].pc = "read"
      <4>1. pc = IF Ended \/ cmd[o].ok THEN "judge" ELSE "reread"
        BY <3>1
      <4> HIDE DEF pc
      <4> QED
        BY <1>4, <3>1, <4>1 DEF ListRead
    <3>2. CASE cmd[o].pc = "reread"
      <4>1. pc = "judge"
        BY <3>2
      <4> HIDE DEF pc
      <4> QED
        BY <1>4, <3>2, <4>1 DEF ListRead
    <3> QED
      BY <1>4, <3>1, <3>2 DEF ListRead
  <2>2. b \in BOOLEAN /\ (b <=> Ended) /\ pc \in {"judge", "reread"}
    BY DEF Ended, Contains
  <2>3. pc = "reread" => ~cmd[o].ok
    OBVIOUS
  <2>4. pc = "judge" /\ ~cmd[o].ok /\ ~b /\ ~cmd[o].early => Lost
    BY <1>4, <2>2 DEF ListRead, Tells, ListingTells, Over, Lost
  <2>5. ~cmd[o].ok /\ ~cmd[o].early => Over
    BY <1>4 DEF ListRead, Tells, ListingTells
  <2> HIDE DEF b, pc
  <2>6. s \in CommandType
    BY <1>c, <2>2, Places DEF CommandType
  <2>7. /\ s.kind = "ls" /\ s.pc = pc /\ s.verdict = cmd[o].verdict /\ s.ok = cmd[o].ok
        /\ s.pid = cmd[o].pid /\ s.early = cmd[o].early /\ s.raw = cmd[o].raw /\ s.ended = b
    BY <1>c, <1>4 DEF CommandType, ListRead
  <2> HIDE DEF s
  <2>8. Tells(s)
    BY <1>4, <2>2, <2>3, <2>4, <2>5, <2>7
       DEF ListRead, Tells, PidTells, ListingTells, NotAlive, Dead, PidStillOurs
  <2> QED
    BY <1>c, <2>1, <2>6, <2>8, QuietSound
<1>5. CASE ListJudge(o)
  <2>1. runner' = runner /\ (Ended' <=> Ended) /\ (Lost' <=> Lost)
    BY <1>5, SameJournal DEF ListJudge, process, Lost
  <2>2. CASE Returns(o, "ended") \/ Returns(o, "running")
    BY <1>c, <2>2, ReturnSound DEF Verdict
  <2>3. CASE ~cmd[o].ended /\ ~cmd[o].ok /\ Returns(o, "dead")
    <3>1. ~cmd[o].early => Lost'
      BY <1>5, <2>1, <2>3 DEF ListJudge, Tells, ListingTells
    <3> QED
      BY <1>c, <2>3, <3>1, ReturnSound DEF Verdict
  <2>4. CASE Set(o, [cmd[o] EXCEPT !.n = @ + 1, !.raw = FALSE, !.ok = FALSE, !.pc = "pid"])
    <3> DEFINE t == [cmd[o] EXCEPT !.n = cmd[o].n + 1, !.raw = FALSE, !.ok = FALSE, !.pc = "pid"]
    <3>1. cmd[o].n + 1 \in Nat
      BY <1>c DEF CommandType
    <3>2. t \in CommandType
      BY <1>c, <3>1, Places DEF CommandType
    <3>3. t.pc = "pid" /\ t.verdict = cmd[o].verdict
      BY <1>c DEF CommandType
    <3>4. Set(o, t)
      BY <2>4
    <3> HIDE DEF t
    <3>5. PICK s \in CommandType : Set(o, s) /\ s.pc = "pid" /\ s.verdict = cmd[o].verdict
      BY <3>2, <3>3, <3>4
    <3>6. Tells(s)'
      BY <1>5, <3>5 DEF ListJudge, Tells, PidTells, ListingTells, NotAlive, Dead, PidStillOurs
    <3> QED
      BY <1>c, <3>5, <3>6, SetSound
  <2> QED
    BY <1>5, <2>2, <2>3, <2>4 DEF ListJudge
<1> QED
  BY <1>1, <1>2, <1>3, <1>4, <1>5 DEF ListStep
-----------------------------------------------------------------------------
(* show.                                                                   *)
LEMMA ShowSound ==
    ASSUME Facts, NEW o \in Commands, Tells(cmd[o]), ShowStep(o)
    PROVE  Sound(o)
<1> USE DEF Is
<1>c. TypeOK /\ cmd[o] \in CommandType
  BY DEF Facts, TypeOK
<1>g. ASSUME cmd[o].pc # "done", Quietly,
             \/ Goes(o, "scan") \/ Goes(o, "pid") \/ Goes(o, "refold")
             \/ Returns(o, "ended") \/ Returns(o, "running")
      PROVE  Sound(o)
  <2>1. CASE Goes(o, "scan") \/ Goes(o, "pid") \/ Goes(o, "refold")
    BY <1>c, <1>g, <2>1, GoSound DEF Place
  <2>2. CASE Returns(o, "ended") \/ Returns(o, "running")
    BY <1>c, <2>2, ReturnSound DEF Verdict
  <2> QED
    BY <1>g, <2>1, <2>2
<1>1. CASE ShowFold(o)
  BY <1>1, <1>g DEF ShowFold
<1>2. CASE IsRunDeadScan(o)
  <2>1. Goes(o, "pid") \/ Goes(o, "refold")
    BY <1>2 DEF IsRunDeadScan, Goes, Set
  <2> QED
    BY <1>2, <1>g, <2>1 DEF IsRunDeadScan
<1>3. CASE IsRunDeadPid(o)
  BY <1>3, ReadPidSound DEF IsRunDeadPid
<1>4. CASE IsRunDeadVerify(o)
  <2>1. CASE Goes(o, "refold")
    BY <1>4, <1>g, <2>1 DEF IsRunDeadVerify
  <2>2. CASE ~RunnerPidAlive(o) /\ Goes(o, "last")
    <3> DEFINE s == [cmd[o] EXCEPT !.pc = "last"]
    <3>1. Set(o, s) /\ Quietly
      BY <1>4, <2>2 DEF Goes, IsRunDeadVerify
    <3>2. s \in CommandType
      BY <1>c, Places DEF CommandType
    <3>3. /\ s.kind = "show" /\ s.pc = "last" /\ s.verdict = cmd[o].verdict
          /\ s.early = cmd[o].early
      BY <1>c, <1>4 DEF CommandType, IsRunDeadVerify
    <3>4. ~cmd[o].early => Over
      BY <1>c, <1>4, <2>2 DEF IsRunDeadVerify, RunnerPidAlive, Facts, OwnerTells, Starting, Tells,
                              PidTells, Over, CommandType
    <3> HIDE DEF s
    <3>5. Tells(s)
      BY <1>4, <3>3, <3>4
         DEF IsRunDeadVerify, Tells, PidTells, ListingTells, NotAlive, Dead, PidStillOurs
    <3> QED
      BY <1>c, <3>1, <3>2, <3>5, QuietSound
  <2>3. Goes(o, "refold") \/ (~RunnerPidAlive(o) /\ Goes(o, "last"))
    BY <1>4 DEF IsRunDeadVerify, Goes, Set
  <2> QED
    BY <2>1, <2>2, <2>3
<1>5. CASE IsRunDeadLast(o)
  <2>1. runner' = runner /\ (Ended' <=> Ended) /\ (Lost' <=> Lost)
    BY <1>5, QuietIsQuiet DEF IsRunDeadLast, Lost
  <2>2. CASE Goes(o, "refold")
    BY <1>5, <1>g, <2>2 DEF IsRunDeadLast
  <2>3. CASE ~Ended /\ Returns(o, "dead")
    <3>1. ~cmd[o].early => Lost'
      BY <1>5, <2>1, <2>3 DEF IsRunDeadLast, Tells, NotAlive, Over, Lost
    <3> QED
      BY <1>c, <2>3, <3>1, ReturnSound DEF Verdict
  <2>4. CASE Set(o, [cmd[o] EXCEPT !.n = 1, !.pc = "fold"])
    <3> DEFINE s == [cmd[o] EXCEPT !.n = 1, !.pc = "fold"]
    <3>1. Set(o, s) /\ Quietly
      BY <1>5, <2>4 DEF IsRunDeadLast
    <3>2. s \in CommandType
      BY <1>c, Places DEF CommandType
    <3>3. s.pc = "fold" /\ s.verdict = cmd[o].verdict
      BY <1>c DEF CommandType
    <3> HIDE DEF s
    <3>4. Tells(s)
      BY <1>5, <3>3 DEF IsRunDeadLast, Tells, PidTells, ListingTells, NotAlive, Dead, PidStillOurs
    <3> QED
      BY <1>c, <3>1, <3>2, <3>4, QuietSound
  <2> QED
    BY <1>5, <2>2, <2>3, <2>4 DEF IsRunDeadLast, ShowDead
<1>6. CASE ShowRefold(o)
  <2>1. Returns(o, "ended") \/ Returns(o, "running")
    BY <1>6 DEF ShowRefold, Returns, Set
  <2> QED
    BY <1>6, <1>g, <2>1 DEF ShowRefold
<1> QED
  BY <1>1, <1>2, <1>3, <1>4, <1>5, <1>6 DEF ShowStep
-----------------------------------------------------------------------------
(* watch.                                                                  *)
LEMMA WatchSound ==
    ASSUME Facts, NEW o \in Commands, Tells(cmd[o]),
           TailPoll(o) \/ LivenessStep(o) \/ WatchTimesOut(o)
    PROVE  Sound(o)
<1> USE DEF Is
<1>c. TypeOK /\ cmd[o] \in CommandType
  BY DEF Facts, TypeOK
<1>r. ASSUME Returns(o, "ended") \/ Returns(o, "timeout")
      PROVE  Sound(o)
  BY <1>c, <1>r, ReturnSound DEF Verdict
<1>1. CASE TailPoll(o)
  <2>1. CASE Returns(o, "ended")
    BY <1>r, <2>1
  <2>2. CASE Set(o, [cmd[o] EXCEPT !.offset = size])
    <3> DEFINE s == [cmd[o] EXCEPT !.offset = size]
    <3>1. Set(o, s) /\ Quietly
      BY <1>1, <2>2 DEF TailPoll
    <3>2. s \in CommandType
      BY <1>c, Places DEF CommandType, TypeOK
    <3>3. s.pc = "tail" /\ s.verdict = cmd[o].verdict
      BY <1>c, <1>1 DEF CommandType, TailPoll
    <3> HIDE DEF s
    <3>4. Tells(s)
      BY <1>1, <3>3 DEF TailPoll, Tells, PidTells, ListingTells, NotAlive, Dead, PidStillOurs
    <3> QED
      BY <1>c, <3>1, <3>2, <3>4, QuietSound
  <2> QED
    BY <1>1, <2>1, <2>2 DEF TailPoll
<1>2. CASE LivenessPid(o)
  BY <1>2, ReadPidSound DEF LivenessPid
<1>3. CASE LivenessVerify(o)
  <2> DEFINE n == cmd[o].n + 1
             found   == [cmd[o] EXCEPT !.n = 0, !.grace = FALSE, !.pid = FALSE, !.pc = "tail"]
             counted == [cmd[o] EXCEPT !.n = n, !.pid = FALSE, !.pc = "tail"]
             full    == [cmd[o] EXCEPT !.pid = FALSE, !.pc = "full"]
  <2>1. \/ Set(o, found)
        \/ ~RunnerPidAlive(o) /\ Set(o, counted)
        \/ ~RunnerPidAlive(o) /\ Set(o, full)
    BY <1>3 DEF LivenessVerify, Set
  <2>2. Quietly /\ cmd[o].pc = "verify" /\ cmd[o].verdict # "dead" /\ cmd[o].kind = "watch"
    BY <1>3 DEF LivenessVerify, Tells, Dead
  <2>n. n \in Nat /\ n = cmd[o].n + 1
    BY <1>c DEF CommandType
  <2> HIDE DEF n
  <2>3. found \in CommandType /\ counted \in CommandType /\ full \in CommandType
    BY <1>c, <2>n, Places DEF CommandType
  <2>4. /\ found.pc = "tail" /\ found.verdict = cmd[o].verdict
        /\ counted.pc = "tail" /\ counted.verdict = cmd[o].verdict
        /\ full.pc = "full" /\ full.verdict = cmd[o].verdict /\ full.early = cmd[o].early
        /\ full.kind = cmd[o].kind
    BY <1>c DEF CommandType
  <2>5. ~RunnerPidAlive(o) /\ ~cmd[o].early => Over
    BY <1>c, <2>2 DEF RunnerPidAlive, Facts, OwnerTells, Starting, Tells, PidTells, Over,
                      CommandType
  <2> HIDE DEF found, counted, full
  <2>6. Tells(found) /\ Tells(counted)
    BY <2>2, <2>4 DEF Tells, PidTells, ListingTells, NotAlive, Dead, PidStillOurs
  <2>7. ~RunnerPidAlive(o) => Tells(full)
    BY <2>2, <2>4, <2>5 DEF Tells, PidTells, ListingTells, NotAlive, Dead, PidStillOurs
  <2> QED
    BY <1>c, <2>1, <2>2, <2>3, <2>6, <2>7, QuietSound
<1>4. CASE FullRead(o)
  <2>1. runner' = runner /\ (Ended' <=> Ended) /\ (Lost' <=> Lost)
    BY <1>4, QuietIsQuiet DEF FullRead, Lost
  <2>2. CASE Returns(o, "ended")
    BY <1>r, <2>2
  <2>3. CASE ~Ended /\ Returns(o, "dead")
    <3>1. ~cmd[o].early => Lost'
      BY <1>4, <2>1, <2>3 DEF FullRead, Tells, NotAlive, Over, Lost
    <3> QED
      BY <1>c, <2>3, <3>1, ReturnSound DEF Verdict
  <2>4. CASE Set(o, [cmd[o] EXCEPT !.grace = TRUE, !.pc = "tail"])
    <3> DEFINE s == [cmd[o] EXCEPT !.grace = TRUE, !.pc = "tail"]
    <3>1. Set(o, s) /\ Quietly
      BY <1>4, <2>4 DEF FullRead
    <3>2. s \in CommandType
      BY <1>c, Places DEF CommandType
    <3>3. s.pc = "tail" /\ s.verdict = cmd[o].verdict
      BY <1>c DEF CommandType
    <3> HIDE DEF s
    <3>4. Tells(s)
      BY <1>4, <3>3 DEF FullRead, Tells, PidTells, ListingTells, NotAlive, Dead, PidStillOurs
    <3> QED
      BY <1>c, <3>1, <3>2, <3>4, QuietSound
  <2> QED
    BY <1>4, <2>2, <2>3, <2>4 DEF FullRead
<1>5. CASE WatchTimesOut(o)
  BY <1>5, <1>r DEF WatchTimesOut
<1> QED
  BY <1>1, <1>2, <1>3, <1>4, <1>5 DEF LivenessStep
-----------------------------------------------------------------------------
(* pause, kill, and the start of any command.                              *)
LEMMA PauseSound ==
    ASSUME Facts, NEW o \in Commands, Tells(cmd[o]), PauseStep(o)
    PROVE  Sound(o)
<1> USE DEF Is
<1>c. TypeOK /\ cmd[o] \in CommandType
  BY DEF Facts, TypeOK
<1>1. CASE PausePid(o)
  BY <1>1, ReadPidSound DEF PausePid
<1>2. CASE PauseVerify(o)
  <2>1. CASE Goes(o, "append")
    BY <1>c, <1>2, <2>1, GoSound DEF PauseVerify, Place
  <2>2. CASE Returns(o, "exited")
    BY <1>c, <2>2, ReturnSound DEF Verdict
  <2>3. Goes(o, "append") \/ Returns(o, "exited")
    BY <1>2 DEF PauseVerify, Goes, Returns, Set
  <2> QED
    BY <2>1, <2>2, <2>3
<1>3. CASE PauseAppend(o)
  <2> DEFINE n == Len(control) + 1
             t == [cmd[o] EXCEPT !.pc = "done", !.verdict = "asked", !.n = n]
  <2>1. Set(o, t)
    BY <1>3 DEF PauseAppend
  <2>2. n \in Nat /\ "done" \in Place /\ "asked" \in Verdict
    BY DEF Facts, TypeOK, Place, Verdict
  <2> HIDE DEF n
  <2>3. t \in CommandType /\ t.pc = "done" /\ t.verdict = "asked"
    BY <1>c, <2>2 DEF CommandType
  <2> HIDE DEF t
  <2>4. PICK s \in CommandType : Set(o, s) /\ s.pc = "done" /\ s.verdict = "asked"
    BY <2>1, <2>3
  <2>5. Tells(s)'
    BY <2>4 DEF Tells, PidTells, ListingTells, NotAlive, Dead, PidStillOurs
  <2> QED
    BY <1>c, <2>4, <2>5, SetSound
<1> QED
  BY <1>1, <1>2, <1>3 DEF PauseStep

LEMMA BeginSound ==
    ASSUME Facts, NEW o \in Commands, Tells(cmd[o]), Begin(o)
    PROVE  Sound(o)
<1>1. TypeOK /\ cmd[o] \in CommandType /\ cmd[o].pc = "idle" /\ Quietly
  BY DEF Facts, TypeOK, Begin
<1>2. PICK kind \in Kinds[o] : Set(o, [cmd[o] EXCEPT !.kind = kind, !.pc = First(kind)])
  BY DEF Begin
<1>3. kind \in {"ls", "show", "watch", "pause", "kill"}
  BY <1>2, LifeBounds
<1> DEFINE pc == First(kind)
           s == [cmd[o] EXCEPT !.kind = kind, !.pc = pc]
<1>4. Set(o, s)
  BY <1>2
<1>5. pc \in {"pid", "fold", "tail", "ended"}
  BY <1>3 DEF First
<1>6. pc \in Place /\ kind \in Kind
  BY <1>3, <1>5 DEF Place, Kind
<1> HIDE DEF pc
<1>7. s \in CommandType /\ s.pc = pc /\ s.verdict = cmd[o].verdict
  BY <1>1, <1>6 DEF CommandType
<1> HIDE DEF s
<1>8. Tells(s)
  BY <1>1, <1>5, <1>7 DEF Tells, PidTells, ListingTells, NotAlive, Dead, PidStillOurs
<1> QED
  BY <1>1, <1>4, <1>7, <1>8, QuietSound

(* The pid that is signalled was the runner's after the wait, so it was    *)
(* not foreign when the wait was over: a foreign pid stays foreign.        *)
LEMMA KillSound ==
    ASSUME Facts, NEW o \in Commands, Tells(cmd[o]), KillStep(o)
    PROVE  Sound(o)
<1> USE DEF Is
<1>c. TypeOK /\ cmd[o] \in CommandType
  BY DEF Facts, TypeOK
<1>r. ASSUME \/ Returns(o, "ended") \/ Returns(o, "exited") \/ Returns(o, "stopped")
             \/ Returns(o, "killed")
      PROVE  Sound(o)
  BY <1>c, <1>r, ReturnSound DEF Verdict
<1>1. CASE KillEnded(o)
  <2>1. Returns(o, "ended") \/ Goes(o, "pid")
    BY <1>1 DEF KillEnded, Goes, Returns, Set
  <2>2. CASE Goes(o, "pid")
    BY <1>c, <1>1, <2>2, GoSound DEF KillEnded, Place
  <2> QED
    BY <1>r, <2>1, <2>2
<1>2. CASE KillPid(o)
  BY <1>2, ReadPidSound DEF KillPid
<1>3. CASE KillVerify(o)
  <2>1. Returns(o, "exited") \/ Goes(o, "stop")
    BY <1>3 DEF KillVerify, Goes, Returns, Set
  <2>2. CASE Goes(o, "stop")
    BY <1>c, <1>3, <2>2, GoSound DEF KillVerify, Place
  <2> QED
    BY <1>r, <2>1, <2>2
<1>4. CASE KillStop(o)
  <2> DEFINE n == Len(control) + 1
             t == [cmd[o] EXCEPT !.pc = "wait", !.n = n]
  <2>1. Set(o, t)
    BY <1>4 DEF KillStop
  <2>2. n \in Nat /\ "wait" \in Place
    BY DEF Facts, TypeOK, Place
  <2> HIDE DEF n
  <2>s. t \in CommandType
    BY <1>c, <2>2 DEF CommandType
  <2>3. t \in CommandType /\ t.pc = "wait" /\ t.verdict = cmd[o].verdict
    BY <1>c, <2>s DEF CommandType
  <2> HIDE DEF t
  <2>4. PICK s \in CommandType : Set(o, s) /\ s.pc = "wait" /\ s.verdict = cmd[o].verdict
    BY <2>1, <2>3
  <2>5. Tells(s)'
    BY <1>4, <2>4 DEF KillStop, Tells, PidTells, ListingTells, NotAlive, Dead, PidStillOurs
  <2> QED
    BY <1>c, <2>4, <2>5, SetSound
<1>5. CASE WaitSees(o)
  BY <1>5, <1>r DEF WaitSees
<1>6. CASE WaitExpires(o)
  <2> DEFINE pc == IF cmd[o].pc = "wait" THEN "reverify" ELSE "reverifyTerm"
             s == [cmd[o] EXCEPT !.at = owner, !.pc = pc]
  <2>1. Set(o, s) /\ Quietly
    <3>1. CASE cmd[o].pc = "wait"
      <4>1. pc = "reverify"
        BY <3>1
      <4> HIDE DEF pc
      <4> QED
        BY <1>6, <3>1, <4>1 DEF WaitExpires
    <3>2. CASE cmd[o].pc = "waitTerm"
      <4>1. pc = "reverifyTerm"
        BY <3>2
      <4> HIDE DEF pc
      <4> QED
        BY <1>6, <3>2, <4>1 DEF WaitExpires
    <3> QED
      BY <1>6, <3>1, <3>2 DEF WaitExpires
  <2>2. pc \in {"reverify", "reverifyTerm"} /\ owner \in Owner
    BY <1>c DEF TypeOK
  <2> HIDE DEF pc
  <2>3. pc \in Place
    BY <2>2 DEF Place
  <2>4. s \in CommandType /\ s.pc = pc /\ s.verdict = cmd[o].verdict /\ s.at = owner
    BY <1>c, <2>2, <2>3 DEF CommandType
  <2> HIDE DEF s
  <2>5. Tells(s)
    BY <1>6, <2>2, <2>4 DEF WaitExpires, Tells, PidTells, ListingTells, NotAlive, Dead, PidStillOurs
  <2> QED
    BY <1>c, <2>1, <2>4, <2>5, QuietSound
<1>7. CASE KillReverify(o)
  <2>1. CASE Returns(o, "exited")
    BY <1>r, <2>1
  <2>2. CASE RunnerPidAlive(o) /\ Goes(o, IF cmd[o].pc = "reverify" THEN "term" ELSE "kill")
    <3> DEFINE pc == IF cmd[o].pc = "reverify" THEN "term" ELSE "kill"
               s == [cmd[o] EXCEPT !.pc = pc]
    <3>1. Set(o, s) /\ Quietly
      BY <1>7, <2>2 DEF Goes, KillReverify
    <3>2. pc \in {"term", "kill"} /\ cmd[o].at # "foreign"
      BY <1>7, <2>2 DEF KillReverify, Tells, PidStillOurs, RunnerPidAlive
    <3> HIDE DEF pc
    <3>3. pc \in Place
      BY <3>2, Places
    <3>s. s \in CommandType
      BY <1>c, <3>3 DEF CommandType
    <3>4. s \in CommandType /\ s.pc = pc /\ s.verdict = cmd[o].verdict /\ s.at = cmd[o].at
      BY <1>c, <3>s DEF CommandType
    <3> HIDE DEF s
    <3>5. Tells(s)
      BY <1>7, <3>2, <3>4 DEF KillReverify, Tells, PidTells, ListingTells, NotAlive, Dead, PidStillOurs
    <3> QED
      BY <1>c, <3>1, <3>4, <3>5, QuietSound
  <2> QED
    BY <1>7, <2>1, <2>2 DEF KillReverify
<1>8. CASE SendTerm(o)
  <2> DEFINE t == [cmd[o] EXCEPT !.pc = "waitTerm"]
  <2>1. Set(o, t)
    BY <1>8 DEF SendTerm, Goes
  <2>s. t \in CommandType
    BY <1>c, Places DEF CommandType
  <2>3. t \in CommandType /\ t.pc = "waitTerm" /\ t.verdict = cmd[o].verdict
    BY <1>c, <2>s DEF CommandType
  <2> HIDE DEF t
  <2>4. PICK s \in CommandType : Set(o, s) /\ s.pc = "waitTerm" /\ s.verdict = cmd[o].verdict
    BY <2>1, <2>3
  <2>5. Tells(s)'
    BY <1>8, <2>4 DEF SendTerm, Tells, PidTells, ListingTells, NotAlive, Dead, PidStillOurs
  <2> QED
    BY <1>c, <2>4, <2>5, SetSound
<1>9. CASE SendKill(o)
  BY <1>9, <1>r DEF SendKill
<1> QED
  BY <1>1, <1>2, <1>3, <1>4, <1>5, <1>6, <1>7, <1>8, <1>9 DEF KillStep
-----------------------------------------------------------------------------
(* What a command does to the runner and to the files: a signal may stop   *)
(* the runner, and ls removes the pid file of one that is gone.            *)
CommandsTyped == cmd' \in [Commands -> CommandType]

LEMMA QuietAdvances ==
    Facts /\ CommandsTyped /\ Quietly => Facts' /\ Advances
BY SameJournal
   DEF Facts, TypeOK, OwnerTells, PidfileTells, JournalTells, Advances, CommandsTyped, Quietly,
       process, files

LEMMA AskAdvances ==
    ASSUME Facts, CommandsTyped, AppendControl(0, "pause") \/ AppendControl(0, "stop")
    PROVE  Facts' /\ Advances
<1>1. UNCHANGED <<runner, owner, journal, size, pidfile>>
  BY DEF AppendControl, process
<1>2. PICK line \in {"pause", "stop"} : control' = Append(control, line)
  BY DEF AppendControl
<1>3. control \in Seq({"pause", "stop"})
  BY DEF Facts, TypeOK
<1>4. control' \in Seq({"pause", "stop"})
  BY <1>2, <1>3
<1>5. Ended' <=> Ended
  BY <1>1, SameJournal
<1>6. Facts'
  BY <1>1, <1>4, <1>5 DEF Facts, TypeOK, OwnerTells, PidfileTells, JournalTells, CommandsTyped
<1>7. Advances
  BY <1>1, <1>5 DEF Advances
<1> QED
  BY <1>6, <1>7

LEMMA JudgeAdvances ==
    ASSUME Facts, NEW o \in Commands, Tells(cmd[o]), CommandsTyped, ListJudge(o)
    PROVE  Facts' /\ Advances
<1>1. UNCHANGED <<runner, owner, journal, size, control>>
  BY DEF ListJudge, process
<1>2. Ended' <=> Ended
  BY <1>1, SameJournal
<1>3. pidfile' \in BOOLEAN /\ (pidfile' => pidfile)
  BY DEF ListJudge, Facts, TypeOK
<1>4. runner # "gone" => (pidfile' <=> pidfile)
  BY DEF ListJudge, Is, Tells, ListingTells
<1> QED
  BY <1>1, <1>2, <1>3, <1>4
     DEF Facts, TypeOK, OwnerTells, PidfileTells, JournalTells, Advances, CommandsTyped

LEMMA SignalAdvances ==
    ASSUME Facts, CommandsTyped, UNCHANGED files, Signal(TRUE) \/ Signal(FALSE)
    PROVE  Facts' /\ Advances
<1>1. UNCHANGED <<journal, size, pidfile, control>> /\ (Ended' <=> Ended)
  BY SameJournal DEF files
<1>2. CASE UNCHANGED <<runner, owner>>
  BY <1>1, <1>2 DEF Facts, TypeOK, OwnerTells, PidfileTells, JournalTells, Advances, CommandsTyped
<1>3. CASE owner = "runner" /\ Gone
  BY <1>1, <1>3
     DEF Facts, TypeOK, OwnerTells, PidfileTells, JournalTells, Advances, CommandsTyped, Gone, Labels,
         Owner, Starting
<1> QED
  BY <1>2, <1>3 DEF Signal, process, Gone

LEMMA CommandAdvances ==
    ASSUME Facts, NEW o \in Commands, Tells(cmd[o]), CommandsTyped,
           Begin(o) \/ CommandStep(o) \/ WatchTimesOut(o)
    PROVE  Facts' /\ Advances
<1>1. CASE ListJudge(o)
  BY <1>1, JudgeAdvances
<1>2. CASE PauseAppend(o) \/ KillStop(o)
  BY <1>2, AskAdvances DEF PauseAppend, KillStop, AppendControl
<1>3. CASE SendTerm(o) \/ SendKill(o)
  BY <1>3, SignalAdvances DEF SendTerm, SendKill
<1>4. CASE Quietly
  BY <1>4, QuietAdvances
<1>5. ListStep(o) => ListJudge(o) \/ Quietly
  BY DEF ListStep, ListPid, ListRaw, ListVerify, ListRead, ReadPid
<1>6. ShowStep(o) => Quietly
  BY DEF ShowStep, ShowFold, IsRunDeadScan, IsRunDeadPid, IsRunDeadVerify, IsRunDeadLast, ShowRefold,
         ReadPid
<1>7. Begin(o) \/ TailPoll(o) \/ LivenessStep(o) \/ WatchTimesOut(o) => Quietly
  BY DEF Begin, TailPoll, LivenessStep, LivenessPid, LivenessVerify, FullRead, WatchTimesOut, ReadPid
<1>8. PauseStep(o) => PauseAppend(o) \/ Quietly
  BY DEF PauseStep, PausePid, PauseVerify, ReadPid
<1>9. KillStep(o) => KillStop(o) \/ SendTerm(o) \/ SendKill(o) \/ Quietly
  BY DEF KillStep, KillEnded, KillPid, KillVerify, WaitSees, WaitExpires, KillReverify, ReadPid
<1> QED
  BY <1>1, <1>2, <1>3, <1>4, <1>5, <1>6, <1>7, <1>8, <1>9 DEF CommandStep
-----------------------------------------------------------------------------
(* What a command knows stays true while others move.                      *)
LEMMA KnowledgeLasts ==
    ASSUME NEW c \in CommandType, Tells(c), Advances
    PROVE  Tells(c)'
BY DEF Advances, Tells, PidTells, ListingTells, NotAlive, Dead, PidStillOurs, Over, Lost

LEMMA LifeStarts == Init => LifeInv
<1> SUFFICES ASSUME Init PROVE LifeInv
  OBVIOUS
<1>1. cmd \in [Commands -> CommandType]
  BY FreshTyped DEF Init
<1>2. TypeOK
  <2>1. <<>> \in Seq(Line) /\ <<>> \in Seq({"pause", "stop"})
    OBVIOUS
  <2> QED
    BY <1>1, <2>1 DEF Init, TypeOK, Labels, Owner
<1>3. OwnerTells /\ PidfileTells /\ JournalTells
  BY DEF Init, OwnerTells, PidfileTells, JournalTells, Starting
<1>4. ASSUME NEW o \in Commands PROVE Tells(cmd[o])
  <2>1. cmd[o].pc = "idle" /\ cmd[o].verdict = "none"
    BY DEF Init, Fresh
  <2> QED
    BY <2>1 DEF Tells, PidTells, ListingTells, NotAlive, Dead, PidStillOurs
<1> QED
  BY <1>2, <1>3, <1>4 DEF LifeInv

LEMMA CommandSound ==
    ASSUME Facts, NEW o \in Commands, Tells(cmd[o]),
           Begin(o) \/ CommandStep(o) \/ WatchTimesOut(o)
    PROVE  Sound(o)
BY ListSound, ShowSound, WatchSound, PauseSound, KillSound, BeginSound DEF CommandStep

LEMMA LifeKept == LifeInv /\ [Next]_vars => LifeInv'
<1> SUFFICES ASSUME LifeInv, [Next]_vars PROVE LifeInv'
  OBVIOUS
<1>1. Facts /\ \A o \in Commands : Tells(cmd[o])
  BY DEF LifeInv, Facts
<1>2. CASE RunnerNext \/ Crash \/ Recycle
  <2>1. Facts' /\ Advances /\ UNCHANGED cmd
    BY <1>1, <1>2, RunnerAdvances
  <2>2. ASSUME NEW o \in Commands PROVE Tells(cmd[o])'
    <3>1. PICK c \in CommandType : c = cmd[o] /\ cmd'[o] = c
      BY <1>1, <2>1 DEF Facts, TypeOK
    <3>2. Tells(c)'
      BY <1>1, <2>1, <3>1, KnowledgeLasts
    <3> QED
      BY <3>1, <3>2 DEF Tells, PidTells, ListingTells, NotAlive, Dead, PidStillOurs
  <2> QED
    BY <2>1, <2>2 DEF LifeInv, Facts
<1>3. ASSUME NEW o \in Commands, Begin(o) \/ CommandStep(o) \/ WatchTimesOut(o)
      PROVE  LifeInv'
  <2>1. Sound(o)
    BY <1>1, <1>3, CommandSound
  <2>2. Facts' /\ Advances
    BY <1>1, <1>3, <2>1, CommandAdvances DEF Sound, CommandsTyped
  <2>3. ASSUME NEW p \in Commands, p # o PROVE Tells(cmd[p])'
    <3>1. PICK c \in CommandType : c = cmd[p] /\ cmd'[p] = c
      BY <1>1, <2>1, <2>3 DEF Facts, TypeOK, Sound
    <3>2. Tells(c)'
      BY <1>1, <2>2, <3>1, KnowledgeLasts
    <3> QED
      BY <3>1, <3>2 DEF Tells, PidTells, ListingTells, NotAlive, Dead, PidStillOurs
  <2> QED
    BY <2>1, <2>2, <2>3 DEF LifeInv, Facts, Sound
<1>4. CASE UNCHANGED vars
  <2>1. Ended' <=> Ended
    BY <1>4, SameJournal DEF vars, files
  <2> QED
    BY <1>1, <1>4, <2>1
       DEF LifeInv, TypeOK, OwnerTells, PidfileTells, JournalTells, Tells, PidTells, ListingTells,
           NotAlive, Dead, PidStillOurs, Over, Lost, vars, files, process
<1> QED
  BY <1>2, <1>3, <1>4 DEF Next
-----------------------------------------------------------------------------
(* The state of the run and of the commands, as LifeInv tells it, holds    *)
(* throughout: in particular the pid file is there while the runner runs   *)
(* its script, and it is only removed by the runner or once that is gone.  *)
THEOREM LifeSafety == Spec => []LifeInv
<1>1. Init => LifeInv
  BY LifeStarts
<1>2. LifeInv /\ [Next]_vars => LifeInv'
  BY LifeKept
<1> QED
  BY <1>1, <1>2, PTL DEF Spec

(* However many commands look at a run while its runner starts, ends or    *)
(* crashes: one that calls the run dead is right, and stays right.         *)
THEOREM DeadRunsAreDead == Spec => []DeadIsFinal
<1>1. LifeInv => DeadIsFinal
  BY DEF LifeInv, Tells, Dead, Lost, DeadIsFinal
<1> QED
  BY <1>1, LifeSafety, PTL

(* What the invariant says of a kill about to signal.                      *)
LEMMA SignalsAreVerified ==
    LifeInv /\ [Next]_vars =>
        \A o \in Commands : (SendTerm(o) \/ SendKill(o)) => cmd[o].at # "foreign"
BY DEF LifeInv, Tells, PidStillOurs, SendTerm, SendKill, Is

(* kill signals no process but the runner's as it was after the wait: a    *)
(* pid that has gone to another process by then gets neither signal.       *)
THEOREM ForeignersAreSpared == Spec => ForeignSpared
<1>1. LifeInv /\ [Next]_vars
        => [\A o \in Commands : (SendTerm(o) \/ SendKill(o)) => cmd[o].at # "foreign"]_vars
  BY SignalsAreVerified
<1> QED
  BY <1>1, LifeSafety, PTL DEF Spec, ForeignSpared
=============================================================================
