----------------------------- MODULE BugReports -----------------------------
(***************************************************************************)
(* The bug-reporting agent and its local store (BugReportingAgent,         *)
(* LocalBugStoreAdapter): a command looks at a page or a scenario's        *)
(* finding, confirms it again and again, then files it or adds it to the   *)
(* bug of the same signature.  Commands run side by side, may be stopped   *)
(* at any await, and every file is emptied before it is written.           *)
(***************************************************************************)
EXTENDS Naturals, Sequences, FiniteSets

CONSTANTS Command,   \* the commands given
          BugId,     \* 1..n, the numbers of one day
          Signature, \* what makes two sightings the same bug
          None, MaxStops

ASSUME BugAssumption ==
  BugId \subseteq Nat \ {0} /\ MaxStops \in Nat /\ None \notin {"created", "updated"}

\* What is asked of a command; a page is no scenario.
IsCommand(k) ==
  /\ k.kind \in {"none", "manual", "scenario"} /\ k.signature \in Signature
  /\ k.page \notin Command /\ k.reruns \in Nat \ {0} /\ k.skipped \in BOOLEAN

VARIABLES
  command,  \* [kind, signature, page, reruns, skipped] of each
  session,  \* where each command is and what it found
  index,    \* index.json: the next number and the signatures
  records,  \* BUG-<n>.json: its signature and sightings
  pending,  \* the run folders under pending/, and who wrote in each last
  kept,     \* the run folders moved under a bug: <<bug, command, run, writer>>
  stops,    \* how many commands were stopped
  mixed,    \* two were between looking up and saving at once
  damaged,  \* one was stopped while a file was empty
  together  \* the manual checks that ran while another checked their page

bugVars == <<command, session, index, records, pending, kept, stops, mixed, damaged, together>>

NoIndex == [whole |-> TRUE, sequence |-> 0, signatures |-> [s \in Signature |-> 0]]
NoRecord == [whole |-> FALSE, signature |-> None, sightings |-> <<>>]
NewSession == [step |-> "start", seen |-> <<>>, index |-> NoIndex, bug |-> 0,
               draft |-> NoRecord, new |-> FALSE, moved |-> 0, outcome |-> None]

BugInit ==
  /\ session = [c \in Command |-> [NewSession EXCEPT !.step =
                  IF command[c].kind = "none" THEN "absent" ELSE "start"]]
  /\ index = NoIndex
  /\ records = [b \in BugId |-> NoRecord]
  /\ pending = {} /\ kept = {} /\ stops = 0
  /\ mixed = FALSE /\ damaged = FALSE /\ together = {}

Is(c, step) == session[c].step = step
Away == {"absent", "start", "done", "stopped"}
Manual(c) == command[c].kind = "manual"
Runs(c) == IF Manual(c) THEN 0..command[c].reruns ELSE 1..command[c].reruns

\* createPendingRunDir: a manual check's folder is named for its page alone,
\* a scenario's for the scenario and the moment.
Folder(c, run) == IF Manual(c) THEN <<command[c].page, run>> ELSE <<c, run>>
Owner(folder) == {p \in pending : p.folder = folder}

\* The looks in order: a manual check's first, then the reruns.
Looks(c) == [n \in 1..Cardinality(Runs(c)) |-> IF Manual(c) THEN n - 1 ELSE n]

\* The runs whose folders are moved, in order.
\* Mutant: without the first look.
PendingDirsReruns(c) == [n \in 1..command[c].reruns |-> n]
PendingDirs(c) == Looks(c)

Beside(c) ==
  {d \in Command \ {c} : /\ Manual(c) /\ Manual(d) /\ command[c].page = command[d].page
                         /\ session[d].step \notin Away}

\* reportScenario: what the catalog does not know or does not count is skipped;
\* reportManualCheck looks once first.
Begin(c) ==
  /\ Is(c, "start")
  /\ session' = [session EXCEPT
       ![c].step = IF command[c].skipped THEN "done" ELSE "look",
       ![c].outcome = IF command[c].skipped THEN "skipped" ELSE None]
  /\ together' = together \cup
       {d \in Command : Beside(c) # {} /\ d \in Beside(c) \cup {c}}
  /\ UNCHANGED <<index, records, pending, kept, mixed, damaged>>

\* Mutant: one confirmation is enough.
AllConfirmedOnce(c, seen) == \E i \in DOMAIN seen : seen[i]
AllConfirmed(c, seen) == \A i \in DOMAIN seen : seen[i]

\* One look at the page or the API: is the bug there?  Its evidence waits.
Look(c) ==
  /\ Is(c, "look")
  /\ \E confirmed \in BOOLEAN :
       LET seen == Append(session[c].seen, confirmed)
           run == Looks(c)[Len(seen)]
       IN /\ session' = [session EXCEPT
               ![c].seen = seen,
               ![c].outcome = IF run = 0 /\ ~ confirmed THEN "no-issue-detected" ELSE @,
               ![c].step = IF run = 0 /\ ~ confirmed THEN "done"
                           ELSE IF Len(seen) < Cardinality(Runs(c)) THEN "look"
                           ELSE IF AllConfirmed(c, seen) THEN "find"
                           ELSE "discard"]
          /\ pending' = (pending \ Owner(Folder(c, run)))
                          \cup {[folder |-> Folder(c, run), by |-> c]}
  /\ UNCHANGED <<index, records, kept, mixed, damaged>>

\* finalizeUnconfirmedSession: all runs move to unconfirmed/.  A folder that
\* is gone makes cp throw.
Discard(c) ==
  /\ Is(c, "discard")
  /\ LET run == PendingDirs(c)[session[c].moved + 1] IN
     IF Owner(Folder(c, run)) = {}
     THEN /\ session' = [session EXCEPT ![c].step = "stopped"]
          /\ UNCHANGED pending
     ELSE /\ pending' = pending \ Owner(Folder(c, run))
          /\ session' = [session EXCEPT
               ![c].moved = @ + 1,
               ![c].outcome = IF session[c].moved + 1 = Len(PendingDirs(c)) THEN "unconfirmed" ELSE @,
               ![c].step = IF session[c].moved + 1 = Len(PendingDirs(c)) THEN "done" ELSE @]
  /\ UNCHANGED <<index, records, kept, mixed, damaged>>

-----------------------------------------------------------------------------
\* persistTrackedBug, and the store's files.
Saving == {c \in Command : session[c].step \notin Away \cup {"look", "find", "discard"}}

\* readIndex: an index that cannot be parsed is an empty one.
ReadIndex == IF index.whole THEN index ELSE NoIndex

\* findDuplicate reads the index,
Find(c) ==
  /\ Is(c, "find")
  /\ session' = [session EXCEPT
       ![c].bug = ReadIndex.signatures[command[c].signature],
       ![c].step = IF ReadIndex.signatures[command[c].signature] = 0 THEN "create" ELSE "record"]
  /\ mixed' = (mixed \/ Saving # {})
  /\ UNCHANGED <<index, records, pending, kept, damaged>>

\* ... then the bug's record; one that cannot be read is as good as none.
ReadRecord(c) ==
  /\ Is(c, "record")
  /\ LET old == records[session[c].bug] IN
     session' = [session EXCEPT
       ![c].draft = IF old.whole THEN [old EXCEPT !.sightings = Append(@, c)] ELSE @,
       ![c].step = IF old.whole THEN "move" ELSE "create"]
  /\ UNCHANGED <<index, records, pending, kept, mixed, damaged>>

\* Mutant: the day's number is not counted up in the index.
CountedNot(read, c) ==
  [read EXCEPT !.signatures[command[c].signature] = read.sequence + 1]
\* Mutant: the number is counted up twice.
CountedTwice(read, c) ==
  [read EXCEPT !.sequence = read.sequence + 2,
               !.signatures[command[c].signature] = read.sequence + 1]
\* The index with the new bug: the day's next number, and its signature.
Counted(read, c) ==
  [read EXCEPT !.sequence = read.sequence + 1,
               !.signatures[command[c].signature] = read.sequence + 1]

\* create reads the index again, and takes the next number.
Create(c) ==
  /\ Is(c, "create")
  /\ ReadIndex.sequence + 1 \in BugId
  /\ session' = [session EXCEPT
       ![c].index = Counted(ReadIndex, c), ![c].bug = ReadIndex.sequence + 1,
       ![c].new = TRUE, ![c].step = "cut record",
       ![c].draft = [whole |-> TRUE, signature |-> command[c].signature, sightings |-> <<c>>]]
  /\ UNCHANGED <<index, records, pending, kept, mixed, damaged>>

\* writeRecord, for create and again for update.
CutRecord(c) ==
  /\ Is(c, "cut record")
  /\ records' = [records EXCEPT ![session[c].bug] = NoRecord]
  /\ session' = [session EXCEPT ![c].step = "write record"]
  /\ UNCHANGED <<index, pending, kept, mixed, damaged>>
WriteRecord(c) ==
  /\ Is(c, "write record")
  /\ records' = [records EXCEPT ![session[c].bug] = session[c].draft]
  /\ session' = [session EXCEPT ![c].step = IF session[c].new THEN "cut index" ELSE "done",
                                ![c].outcome = IF session[c].new THEN @ ELSE
                                  IF Len(session[c].draft.sightings) = 1 THEN "created" ELSE "updated"]
  /\ UNCHANGED <<index, pending, kept, mixed, damaged>>

\* writeIndex
CutIndex(c) ==
  /\ Is(c, "cut index")
  /\ index' = [index EXCEPT !.whole = FALSE]
  /\ session' = [session EXCEPT ![c].step = "write index"]
  /\ UNCHANGED <<records, pending, kept, mixed, damaged>>
WriteIndex(c) ==
  /\ Is(c, "write index")
  /\ index' = session[c].index
  /\ session' = [session EXCEPT ![c].step = "move", ![c].new = FALSE]
  /\ UNCHANGED <<records, pending, kept, mixed, damaged>>

\* moveAndUpdateRecord: the folders one by one, then the record once more.
Move(c) ==
  /\ Is(c, "move")
  /\ LET run == PendingDirs(c)[session[c].moved + 1]
         found == Owner(Folder(c, run))
     IN IF found = {}
        THEN /\ session' = [session EXCEPT ![c].step = "stopped"]
             /\ UNCHANGED <<pending, kept>>
        ELSE /\ pending' = pending \ found
             /\ kept' = kept \cup {<<session[c].bug, c, run, p.by>> : p \in found}
             /\ session' = [session EXCEPT
                  ![c].moved = @ + 1,
                  ![c].step = IF session[c].moved + 1 = Len(PendingDirs(c)) THEN "cut record" ELSE @]
  /\ UNCHANGED <<index, records, mixed, damaged>>

-----------------------------------------------------------------------------
Does(c) ==
  /\ \/ Begin(c)
     \/ (Look(c) \/ Discard(c) \/ Find(c) \/ ReadRecord(c) \/ Create(c)
         \/ CutRecord(c) \/ WriteRecord(c) \/ CutIndex(c) \/ WriteIndex(c) \/ Move(c))
        /\ UNCHANGED together
  /\ UNCHANGED <<command, stops>>

\* Ctrl-C, or a browser or a disk that fails.
IsStopped(c) ==
  /\ session[c].step \notin Away /\ stops < MaxStops
  /\ stops' = stops + 1
  /\ session' = [session EXCEPT ![c].step = "stopped"]
  /\ damaged' = (damaged \/ session[c].step \in {"write record", "write index"})
  /\ UNCHANGED <<command, index, records, pending, kept, mixed, together>>

BugNext == \E c \in Command : Does(c) \/ IsStopped(c)

-----------------------------------------------------------------------------
Filed(c) == session[c].outcome \in {"created", "updated"}

Indexes ==
  [whole : BOOLEAN, sequence : {0} \cup BugId, signatures : [Signature -> {0} \cup BugId]]
BugRecords ==
  [whole : BOOLEAN, signature : Signature \cup {None}, sightings : Seq(Command)]
Sessions ==
  [step : {"absent", "start", "look", "find", "discard", "record", "create", "cut record",
           "write record", "cut index", "write index", "move", "done", "stopped"},
   seen : Seq(BOOLEAN), index : Indexes, bug : {0} \cup BugId, draft : BugRecords,
   new : BOOLEAN, moved : Nat,
   outcome : {None, "skipped", "no-issue-detected", "unconfirmed", "created", "updated"}]

BugTypeOK ==
  /\ \A c \in Command : IsCommand(command[c])
  /\ session \in [Command -> Sessions]
  /\ index \in Indexes /\ records \in [BugId -> BugRecords]
  /\ pending \subseteq
       UNION {{[folder |-> Folder(c, run), by |-> c] : run \in Runs(c)} : c \in Command}
  /\ stops \in 0..MaxStops /\ mixed \in BOOLEAN /\ damaged \in BOOLEAN
  /\ together \subseteq Command

\* A record holds a sighting only of a command whose every look, the first and
\* each confirmation, found the bug.
FiledWhenConfirmed ==
  \A b \in BugId : records[b].whole =>
    \A i \in DOMAIN records[b].sightings :
      LET c == records[b].sightings[i] IN
      /\ Len(session[c].seen) = Cardinality(Runs(c))
      /\ \A k \in DOMAIN session[c].seen : session[c].seen[k]

\* "A bug seen before is updated, not filed twice": while commands save one
\* after another and none is stopped over an emptied file, a signature has one
\* whole record, and every command that said it filed is in it once.
FiledOnceInTurn ==
  (~ mixed /\ ~ damaged) =>
    /\ \A b, d \in BugId :
         (records[b].whole /\ records[d].whole /\ records[b].signature = records[d].signature) => b = d
    /\ \A c \in Command : (Filed(c) /\ Saving = {}) =>
         /\ records[session[c].bug].whole
         /\ records[session[c].bug].signature = command[c].signature
         /\ Cardinality({i \in DOMAIN records[session[c].bug].sightings :
              records[session[c].bug].sightings[i] = c}) = 1

\* The evidence of a filed sighting is under its bug, all of it and its own,
\* and nothing of it still waits, unless two manual checks of one page ran at
\* once: those share the folders (createPendingRunDir, finalizePendingDirs).
EvidenceIsKept ==
  \A c \in Command \ together : Filed(c) =>
    /\ \A run \in Runs(c) : <<session[c].bug, c, run, c>> \in kept
    /\ \A p \in pending : p.by # c

-----------------------------------------------------------------------------
\* What every step keeps.

\* The number that the index has for a command's signature, and one more.
Listed(c) == index.signatures[command[c].signature]
NextBug == index.sequence + 1

\* c files a bug of its own, or adds to one that the index has.
Writing(c) == Is(c, "cut record") \/ Is(c, "write record")
Files(c) == Is(c, "cut index") \/ Is(c, "write index") \/ (Writing(c) /\ session[c].new)
AddsTo(c) == Is(c, "move") \/ (Writing(c) /\ ~ session[c].new)
InHand(b) == \E c \in Command : Is(c, "write record") /\ session[c].bug = b

\* Every look of a command found the bug.
Confirmed(c) ==
  /\ Len(session[c].seen) = Cardinality(Runs(c))
  /\ \A k \in DOMAIN session[c].seen : session[c].seen[k]
LookInv ==
  /\ \A c \in Command :
       /\ Is(c, "absent") \/ Is(c, "start") => session[c].seen = <<>>
       /\ Is(c, "look") => Len(session[c].seen) < Cardinality(Runs(c))
       /\ Is(c, "discard") => Len(session[c].seen) = Cardinality(Runs(c))
       /\ Is(c, "find") \/ c \in Saving \/ Filed(c) => Confirmed(c)
       /\ Filed(c) => Is(c, "done")
       /\ Is(c, "record") => session[c].bug # 0
       /\ session[c].new => Files(c) \/ Is(c, "stopped")
       /\ \A i \in DOMAIN session[c].draft.sightings : Confirmed(session[c].draft.sightings[i])
  /\ \A b \in BugId : \A i \in DOMAIN records[b].sightings : Confirmed(records[b].sightings[i])

OnceIn(c, sightings) == \E i \in DOMAIN sightings : \A j \in DOMAIN sightings : sightings[j] = c <=> j = i
IsIn(c, sightings) == \E i \in DOMAIN sightings : sightings[i] = c

\* The index names one whole record for each signature it has, and a record it
\* does not name has the next number.
IndexInv ==
  /\ \A s \in Signature : LET b == index.signatures[s] IN
       b # 0 => /\ b <= index.sequence
                /\ InHand(b) \/ (records[b].whole /\ records[b].signature = s)
                /\ \A t \in Signature : index.signatures[t] = b => s = t
  /\ \A b \in BugId : records[b].whole =>
       /\ records[b].signature \in Signature
       /\ \/ index.signatures[records[b].signature] = b
          \/ index.signatures[records[b].signature] = 0 /\ b = NextBug

\* The one who saves has in hand what is to be saved.
SaverInv ==
  /\ \A c, d \in Saving : c = d
  /\ ~ index.whole => \E c \in Command : Is(c, "write index")
  /\ \A c \in Command :
       /\ Is(c, "record") => session[c].bug = Listed(c) /\ Listed(c) # 0
       /\ Is(c, "create") => Listed(c) = 0
       /\ Files(c) =>
            /\ Listed(c) = 0 /\ session[c].bug = NextBug /\ NextBug \in BugId
            /\ session[c].index = Counted([index EXCEPT !.whole = TRUE], c)
            /\ session[c].draft = [whole |-> TRUE, signature |-> command[c].signature, sightings |-> <<c>>]
            /\ ~ Writing(c) => records[NextBug] = session[c].draft
       /\ AddsTo(c) =>
            /\ session[c].bug = Listed(c) /\ Listed(c) # 0
            /\ session[c].draft.whole /\ session[c].draft.signature = command[c].signature
            /\ OnceIn(c, session[c].draft.sightings)

\* A command is in a record once it was written, and what was filed stays
\* where it was, in the record and in what will be written over it.
SightingInv ==
  /\ \A b \in BugId, c \in Command : IsIn(c, records[b].sightings) =>
       \/ Is(c, "done") \/ Is(c, "stopped") \/ Is(c, "cut index") \/ Is(c, "write index") \/ AddsTo(c)
  /\ \A c, d \in Command : AddsTo(c) /\ c # d /\ IsIn(d, session[c].draft.sightings) =>
       Is(d, "done") \/ Is(d, "stopped")
  /\ \A c \in Command : Filed(c) =>
       /\ session[c].bug = Listed(c) /\ Listed(c) # 0
       /\ InHand(Listed(c)) \/ OnceIn(c, records[Listed(c)].sightings)
       /\ \A d \in Command : AddsTo(d) /\ Listed(d) = Listed(c) => OnceIn(c, session[d].draft.sightings)

BooksInv == ~ mixed /\ ~ damaged => IndexInv /\ SaverInv /\ SightingInv

\* The evidence of a command: what it still has to move waits under its name,
\* what it moved is under its bug; nobody else uses its folders.
Mine(c, n) == [folder |-> Folder(c, Looks(c)[n]), by |-> c]
Going(c) == session[c].step \notin Away \cup {"discard"}
EvidenceInv ==
  /\ \A c, d \in Command :
       c # d /\ Manual(c) /\ Manual(d) /\ command[c].page = command[d].page
         /\ session[c].step \notin Away /\ session[d].step \notin Away => c \in together
  /\ \A c \in Command :
       /\ Is(c, "absent") \/ Is(c, "start") => session[c].moved = 0 /\ \A p \in pending : p.by # c
       /\ Going(c) /\ ~ AddsTo(c) => session[c].moved = 0
       /\ Is(c, "move") => session[c].moved < Len(session[c].seen)
       /\ (AddsTo(c) /\ ~ Is(c, "move")) \/ Filed(c) => session[c].moved = Len(session[c].seen)
       /\ (Going(c) \/ Filed(c)) /\ c \notin together =>
            /\ \A n \in 1..session[c].moved : <<session[c].bug, c, Looks(c)[n], c>> \in kept
            /\ \A n \in (session[c].moved + 1)..Len(session[c].seen) :
                 Owner(Folder(c, Looks(c)[n])) = {Mine(c, n)}
            /\ \A p \in pending : p.by = c =>
                 \E n \in (session[c].moved + 1)..Len(session[c].seen) : p = Mine(c, n)

BugInv == BugTypeOK /\ LookInv /\ BooksInv /\ EvidenceInv
=============================================================================
