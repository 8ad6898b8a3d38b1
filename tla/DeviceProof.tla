----------------------------- MODULE DeviceProof -----------------------------
(***************************************************************************)
(* Proofs about Device: for any number of connections and of commands, in  *)
(* any order of their parts and of the platform's signals, what was        *)
(* refused stays out of the file and out of sight, what was acknowledged   *)
(* is in the file, and a device at rest is saved.                          *)
(*                                                                         *)
(* And about Objects, which a device holds: for any templates, any number  *)
(* of slots and anything a caller keeps outside, nothing outlives the      *)
(* hierarchy it is of, a stClear object ends with the next Restart or      *)
(* Reset, and a hierarchy that is off has nothing in a slot.               *)
(***************************************************************************)
EXTENDS Device, Objects, FiniteSetTheorems, TLAPS

Places == {"idle", "before", "run", "after", "persist", "failed"}
Numbers == 1 .. issued
Contents == [nv : SUBSET Numbers, witness : SUBSET Numbers]
Thread ==
  [pc : Places, kind : Kinds, mark : {0} \cup Numbers, before : SUBSET Numbers,
   ok : BOOLEAN, rolled : BOOLEAN, writes_nv : BOOLEAN]

TypeOK ==
  /\ issued \in Nat
  /\ nv_write_failed \in BOOLEAN /\ failure_mode \in BOOLEAN /\ started \in BOOLEAN
  /\ mem \in Contents /\ file \in Contents
  /\ thread \in [Clients -> Thread]
  /\ refused \subseteq Numbers

\* A thread that is not idle has a number of its own, of a command that has
\* not been refused.
OwnNumber ==
  /\ \A c \in Clients : ~At(c, "idle") => thread[c].mark \in Numbers \ refused
  /\ \A c, d \in Clients :
       ~At(c, "idle") /\ ~At(d, "idle") /\ thread[c].mark = thread[d].mark => c = d

\* The mark of a command that has not run is nowhere.
NotYet ==
  \A c \in Clients :
    /\ At(c, "before") \/ At(c, "run") => thread[c].mark \notin mem.nv \cup mem.witness
    /\ At(c, "run") => thread[c].mark \notin thread[c].before

\* Nothing is in the file that memory has lost.
FileBehind == file.nv \subseteq mem.nv /\ file.witness \subseteq mem.witness

\* What was refused is in memory only while the failure is recorded.
Contained ==
  /\ failure_mode = nv_write_failed
  /\ RefusedStaysOut
  /\ ~nv_write_failed => (refused \ early) \cap (mem.nv \cup mem.witness) = {}

\* What a thread that is about to write or has failed to write knows.
Remembered ==
  \A c \in Clients :
    /\ /\ thread[c].pc \in {"after", "persist", "failed"}
       /\ thread[c].kind = "nv" /\ thread[c].ok /\ thread[c].mark \notin overtaken
       => thread[c].mark \in mem.nv
    /\ thread[c].pc \in {"persist", "failed"} /\ thread[c].kind = "nv" => thread[c].writes_nv

\* The thread c is on its way to a write.
WillWrite(c) ==
  \/ thread[c].pc \in {"persist", "failed"}
  \/ /\ At(c, "after")
     /\ \/ thread[c].kind \in {"startup", "nv"}
        \/ thread[c].mark \in mem.witness \ thread[c].before

\* While the file is behind, somebody is on the way to a write.
DirtyHasWriter ==
  ~nv_write_failed /\ file # mem => \E c \in Clients : WillWrite(c)

IInv ==
  /\ TypeOK /\ OwnNumber /\ NotYet /\ FileBehind /\ Contained /\ Remembered
  /\ DirtyHasWriter /\ NothingSeenLate /\ AckedIsDurable

-----------------------------------------------------------------------------
\* The initial state.
LEMMA InitIInv == Init => IInv
<1> SUFFICES ASSUME Init PROVE IInv
  OBVIOUS
<1>1. TypeOK
  BY DEF Init, TypeOK, Contents, Nothing, Numbers, Thread, Idle, Places, Kinds
<1> QED
  BY <1>1 DEF Init, IInv, OwnNumber, NotYet, FileBehind, Contained, Remembered,
    DirtyHasWriter, NothingSeenLate, AckedIsDurable, RefusedStaysOut, At, Idle, Nothing

\* A new command has a number that nothing holds yet.
LEMMA ReceiveKeeps ==
  ASSUME IInv, NEW c \in Clients, NEW kind \in Kinds, Receive(c, kind)
  PROVE  IInv'
<1> USE DEF IInv, At
<1>1. issued' = issued + 1 /\ Numbers \subseteq Numbers' /\ issued + 1 \in Numbers'
      /\ issued + 1 \notin Numbers
  BY DEF Receive, TypeOK, Numbers
<1>2. /\ thread'[c] = [Idle EXCEPT !.pc = "before", !.kind = kind, !.mark = issued + 1]
      /\ \A d \in Clients \ {c} : thread'[d] = thread[d]
      /\ thread' \in [Clients -> Thread']
  <2>1. thread \in [Clients -> Thread']
    BY <1>1 DEF TypeOK, Thread
  <2>2. [Idle EXCEPT !.pc = "before", !.kind = kind, !.mark = issued + 1] \in Thread'
    BY <1>1 DEF Idle, Thread, Places, Kinds
  <2> QED
    BY <2>1, <2>2 DEF Receive
<1>3. thread'[c].pc = "before" /\ thread'[c].kind = kind /\ thread'[c].mark = issued + 1
  BY <1>2 DEF Idle
<1>4. UNCHANGED <<state, history>>
  BY DEF Receive
<1>5. TypeOK'
  BY <1>1, <1>2, <1>4 DEF TypeOK, Contents, state, history
<1>6. OwnNumber'
  <2>1. refused' = refused /\ refused \subseteq Numbers
    BY <1>4 DEF TypeOK, history
  <2>2. \A d \in Clients \ {c} :
          thread'[d] = thread[d] /\ (thread[d].pc # "idle" => thread[d].mark \in Numbers \ refused)
    BY <1>2 DEF OwnNumber
  <2> QED
    BY <1>1, <1>3, <2>1, <2>2 DEF OwnNumber
<1>7. NotYet'
  BY <1>1, <1>2, <1>3, <1>4 DEF NotYet, TypeOK, Contents, state
<1>8. FileBehind' /\ Contained' /\ NothingSeenLate' /\ AckedIsDurable'
  BY <1>4 DEF FileBehind, Contained, RefusedStaysOut, NothingSeenLate, AckedIsDurable,
    state, history
<1>9. Remembered'
  BY <1>2, <1>3, <1>4 DEF Remembered, state, history
<1>10. DirtyHasWriter'
  BY <1>2, <1>3, <1>4, At(c, "idle") DEF DirtyHasWriter, WillWrite, state, Receive
<1> QED
  BY <1>5, <1>6, <1>7, <1>8, <1>9, <1>10

\* The witness before a command does not hold its mark.
LEMMA WitnessKeeps ==
  ASSUME IInv, NEW c \in Clients, Witness(c)
  PROVE  IInv'
<1> USE DEF IInv, At
<1>1. /\ UNCHANGED <<state, history, issued>> /\ thread[c].pc = "before"
      /\ Numbers' = Numbers /\ Thread' = Thread
  BY DEF Witness, Numbers, Thread
<1>2. /\ thread'[c] = [thread[c] EXCEPT !.pc = "run", !.before = mem.witness]
      /\ \A d \in Clients \ {c} : thread'[d] = thread[d]
      /\ thread' \in [Clients -> Thread]
  <2>1. thread \in [Clients -> Thread] /\ mem.witness \in SUBSET Numbers
    BY DEF TypeOK, Contents
  <2>2. thread' = [thread EXCEPT ![c] = [thread[c] EXCEPT !.pc = "run", !.before = mem.witness]]
    BY <2>1 DEF Witness
  <2>3. [thread[c] EXCEPT !.pc = "run", !.before = mem.witness] \in Thread
    BY <2>1 DEF Thread, Places
  <2> QED
    BY <2>1, <2>2, <2>3
<1>3. /\ thread'[c].pc = "run" /\ thread'[c].mark = thread[c].mark
      /\ thread'[c].before = mem.witness
  BY <1>2 DEF TypeOK, Thread
<1>4. TypeOK'
  BY <1>1, <1>2 DEF TypeOK, Contents, state, history
<1>5. OwnNumber'
  <2>1. \A d \in Clients : thread'[d].mark = thread[d].mark
                            /\ (thread'[d].pc = "idle" <=> thread[d].pc = "idle")
    BY <1>1, <1>2, <1>3
  <2>2. refused' = refused
    BY <1>1 DEF history
  <2> QED
    BY <1>1, <2>1, <2>2 DEF OwnNumber
<1>6. NotYet'
  BY <1>1, <1>2, <1>3 DEF NotYet, state
<1>7. FileBehind' /\ Contained' /\ NothingSeenLate' /\ AckedIsDurable'
  BY <1>1 DEF FileBehind, Contained, RefusedStaysOut, NothingSeenLate, AckedIsDurable,
    state, history
<1>8. Remembered'
  BY <1>1, <1>2, <1>3 DEF Remembered, state, history
<1>9. DirtyHasWriter'
  BY <1>1, <1>2, <1>3 DEF DirtyHasWriter, WillWrite, state
<1> QED
  BY <1>4, <1>5, <1>6, <1>7, <1>8, <1>9

\* A command that has an effect runs while no failure is recorded, puts its own
\* mark where it was not, and is on its way to a write.
LEMMA RunKeeps ==
  ASSUME IInv, NEW c \in Clients, NEW rolled \in BOOLEAN, Run(c, rolled)
  PROVE  IInv'
<1> USE DEF IInv, At
<1> DEFINE acc == Accepted(thread[c].kind)
           kind == thread[c].kind
           mark == thread[c].mark
<1>1. /\ UNCHANGED <<issued, nv_write_failed, failure_mode, file, acked, refused, early,
                     overtaken>>
      /\ thread[c].pc = "run"
      /\ Numbers' = Numbers /\ Thread' = Thread /\ Contents' = Contents
  BY DEF Run, Numbers, Thread, Contents
<1>2. mark \in Numbers \ refused /\ mark \notin mem.nv \cup mem.witness
      /\ mark \notin thread[c].before
  BY <1>1 DEF OwnNumber, NotYet
<1>3. /\ mem'.nv = IF acc /\ kind \in {"startup", "nv"} THEN mem.nv \cup {mark} ELSE mem.nv
      /\ mem'.witness = IF acc /\ kind = "auth" THEN mem.witness \cup {mark} ELSE mem.witness
      /\ mem' \in Contents
  BY <1>2 DEF Run, TypeOK, Contents
<1>4. acc => ~nv_write_failed /\ ~failure_mode
  BY DEF Accepted, Contained
<1>5. started' \in BOOLEAN
  BY DEF Run, TypeOK
<1>6. (acc /\ kind # "auth") \in BOOLEAN
  BY Zenon
<1>7. thread' = [thread EXCEPT ![c].pc = "after", ![c].rolled = rolled,
                   ![c].ok = acc /\ kind # "auth"]
  BY DEF Run
<1>8. late' = IF acc /\ kind = "plain" THEN late \cup (mem.nv \cap (refused \ early)) ELSE late
  BY DEF Run
<1>9. mem' # mem => acc /\ kind \in {"startup", "nv", "auth"}
  BY <1>3 DEF TypeOK, Contents
<1> HIDE DEF acc
<1>10. /\ \A d \in Clients \ {c} : thread'[d] = thread[d]
       /\ thread' \in [Clients -> Thread]
  <2> DEFINE after == [thread[c] EXCEPT !.pc = "after", !.rolled = rolled,
                                       !.ok = acc /\ kind # "auth"]
  <2>1. thread \in [Clients -> Thread]
    BY DEF TypeOK
  <2>2. thread' = [thread EXCEPT ![c] = after]
    BY <1>7, <2>1
  <2>3. after \in Thread
    BY <1>6, <2>1 DEF Thread, Places
  <2> QED
    BY <2>1, <2>2, <2>3
<1>11. /\ thread'[c].pc = "after" /\ thread'[c].kind = kind /\ thread'[c].mark = mark
       /\ thread'[c].before = thread[c].before
       /\ thread'[c].ok => acc
  BY <1>6, <1>7 DEF TypeOK, Thread
<1>12. mem.nv \subseteq mem'.nv /\ mem.witness \subseteq mem'.witness
  BY <1>3
<1>13. TypeOK'
  BY <1>1, <1>3, <1>5, <1>10 DEF TypeOK
<1>14. OwnNumber'
  BY <1>1, <1>10, <1>11, <1>2 DEF OwnNumber
<1>15. NotYet'
  BY <1>1, <1>3, <1>10, <1>11 DEF NotYet, OwnNumber
<1>16. FileBehind'
  BY <1>1, <1>12 DEF FileBehind
<1>17. Contained'
  BY <1>1, <1>2, <1>3 DEF Contained, RefusedStaysOut
<1>18. NothingSeenLate'
  <2>1. CASE acc /\ kind = "plain"
    BY <1>4, <1>8, <2>1 DEF Contained, NothingSeenLate
  <2>2. CASE ~(acc /\ kind = "plain")
    BY <1>8, <2>2 DEF NothingSeenLate
  <2> QED
    BY <2>1, <2>2
<1>19. AckedIsDurable'
  BY <1>1 DEF AckedIsDurable
<1>20. Remembered'
  BY <1>1, <1>3, <1>10, <1>11, <1>12 DEF Remembered
<1>21. DirtyHasWriter'
  <2>1. CASE mem' = mem
    BY <2>1, <1>1, <1>10 DEF DirtyHasWriter, WillWrite
  <2>2. CASE mem' # mem
    BY <2>2, <1>2, <1>3, <1>9, <1>11 DEF DirtyHasWriter, WillWrite
  <2> QED
    BY <2>1, <2>2
<1> QED
  BY <1>13, <1>14, <1>15, <1>16, <1>17, <1>18, <1>19, <1>20, <1>21

\* What the others are in the middle of is theirs when one thread is done.
LEMMA DoneKeeps ==
  ASSUME IInv, NEW c \in Clients, ~At(c, "idle"),
         thread' = [thread EXCEPT ![c] = Idle],
         UNCHANGED <<issued, mem, overtaken>>,
         refused' = refused \/ refused' = refused \cup {thread[c].mark}
  PROVE  /\ thread' \in [Clients -> Thread'] /\ refused' \subseteq Numbers'
         /\ thread'[c].pc = "idle"
         /\ \A d \in Clients \ {c} : thread'[d] = thread[d]
         /\ OwnNumber' /\ NotYet' /\ Remembered'
<1> USE DEF IInv, At
<1>1. Numbers' = Numbers /\ Thread' = Thread
  BY DEF Numbers, Thread
<1>2. Idle \in Thread /\ Idle.pc = "idle"
  BY DEF Idle, Thread, Places, Kinds
<1>3. /\ thread' \in [Clients -> Thread] /\ thread'[c].pc = "idle"
      /\ \A d \in Clients \ {c} : thread'[d] = thread[d]
  BY <1>2 DEF TypeOK
<1>4. thread[c].mark \in Numbers /\ refused' \subseteq Numbers
  BY DEF OwnNumber, TypeOK
<1>5. OwnNumber'
  <2>1. \A d \in Clients : thread'[d].pc # "idle" => d # c
    BY <1>3
  <2>2. \A d \in Clients \ {c} :
          thread[d].pc # "idle" => thread[d].mark \in Numbers \ refused'
    BY DEF OwnNumber
  <2> QED
    BY <1>1, <1>3, <2>1, <2>2 DEF OwnNumber
<1>6. NotYet'
  BY <1>3 DEF NotYet
<1>7. Remembered'
  BY <1>3 DEF Remembered
<1> QED
  BY <1>1, <1>3, <1>4, <1>5, <1>6, <1>7

\* A thread that changed something takes the way to the write, and an nv command
\* is not answered here.
LEMMA CompareKeeps ==
  ASSUME IInv, NEW c \in Clients, Compare(c)
  PROVE  IInv'
<1> USE DEF IInv, At
<1>1. /\ UNCHANGED <<state, issued, refused, early, late, overtaken>>
      /\ UNCHANGED <<mem, file, nv_write_failed, failure_mode, started>>
      /\ thread[c].pc = "after"
      /\ Numbers' = Numbers /\ Thread' = Thread /\ Contents' = Contents
  BY DEF Compare, Numbers, Thread, Contents, state
<1>2. FileBehind' /\ Contained' /\ NothingSeenLate'
  BY <1>1 DEF FileBehind, Contained, RefusedStaysOut, NothingSeenLate
<1>3. CASE WritesNv(c) \/ thread[c].rolled
  <2>1. /\ thread' = [thread EXCEPT ![c].pc = "persist", ![c].writes_nv = WritesNv(c)]
        /\ UNCHANGED acked
    BY <1>3 DEF Compare
  <2>2. WritesNv(c) \in BOOLEAN /\ (thread[c].kind = "nv" => WritesNv(c))
    BY DEF WritesNv
  <2> DEFINE w == WritesNv(c)
             next == [thread[c] EXCEPT !.pc = "persist", !.writes_nv = w]
  <2> HIDE DEF w
  <2>3. thread' = [thread EXCEPT ![c] = next] /\ next \in Thread
    BY <2>1, <2>2 DEF TypeOK, Thread, Places, w
  <2>4. /\ \A d \in Clients \ {c} : thread'[d] = thread[d]
        /\ thread' \in [Clients -> Thread]
        /\ thread'[c].pc = "persist" /\ thread'[c].mark = thread[c].mark
        /\ thread'[c].kind = thread[c].kind /\ thread'[c].ok = thread[c].ok
        /\ (thread[c].kind = "nv" => thread'[c].writes_nv)
    BY <2>2, <2>3 DEF TypeOK, Thread, w
  <2>5. TypeOK'
    BY <1>1, <2>4 DEF TypeOK
  <2>6. OwnNumber'
    <3>1. \A d \in Clients : thread'[d].mark = thread[d].mark
                              /\ (thread'[d].pc = "idle" <=> thread[d].pc = "idle")
      BY <1>1, <2>4
    <3> QED
      BY <1>1, <3>1 DEF OwnNumber
  <2>7. NotYet' /\ Remembered'
    BY <1>1, <2>4 DEF NotYet, Remembered
  <2>8. DirtyHasWriter'
    BY <1>1, <2>4 DEF DirtyHasWriter, WillWrite
  <2>9. AckedIsDurable'
    BY <1>1, <2>1 DEF AckedIsDurable
  <2> QED
    BY <1>2, <2>5, <2>6, <2>7, <2>8, <2>9
<1>4. CASE ~(WritesNv(c) \/ thread[c].rolled)
  <2>1. Answer(c)
    BY <1>4 DEF Compare
  <2>2. thread[c].kind \notin {"startup", "nv"} /\ mem.witness = thread[c].before
    BY <1>4 DEF WritesNv
  <2>3. thread' = [thread EXCEPT ![c] = Idle] /\ acked' = acked
    BY <2>1, <2>2 DEF Answer
  <2>4. /\ thread' \in [Clients -> Thread'] /\ refused' \subseteq Numbers'
        /\ thread'[c].pc = "idle"
        /\ \A d \in Clients \ {c} : thread'[d] = thread[d]
        /\ OwnNumber' /\ NotYet' /\ Remembered'
    BY <1>1, <2>3, DoneKeeps
  <2>5. TypeOK'
    BY <1>1, <2>4 DEF TypeOK
  <2>6. ~WillWrite(c)
    BY <1>1, <2>2 DEF WillWrite
  <2>7. DirtyHasWriter'
    BY <1>1, <2>4, <2>6 DEF DirtyHasWriter, WillWrite
  <2>8. AckedIsDurable'
    BY <1>1, <2>3 DEF AckedIsDurable
  <2> QED
    BY <1>2, <2>4, <2>5, <2>7, <2>8
<1> QED
  BY <1>3, <1>4

\* The answer follows a write that took the mark with it, and a failed write is
\* on its way to be recorded.
LEMMA PersistKeeps ==
  ASSUME IInv, NEW c \in Clients, Persist(c)
  PROVE  IInv'
<1> USE DEF IInv, At
<1>1. /\ UNCHANGED <<issued, refused, early, late, overtaken, mem, nv_write_failed,
                     failure_mode, started>>
      /\ thread[c].pc = "persist"
      /\ Numbers' = Numbers /\ Thread' = Thread /\ Contents' = Contents
  BY DEF Persist, Numbers, Thread, Contents
<1>2. CASE MayWrite /\ file' = mem /\ Answer(c)
  <2>1. ~nv_write_failed
    BY <1>2 DEF MayWrite
  <2>2. thread' = [thread EXCEPT ![c] = Idle]
    BY <1>2 DEF Answer
  <2>3. /\ thread' \in [Clients -> Thread'] /\ refused' \subseteq Numbers'
        /\ OwnNumber' /\ NotYet' /\ Remembered'
    BY <1>1, <2>2, DoneKeeps
  <2>4. TypeOK' /\ FileBehind' /\ Contained' /\ NothingSeenLate' /\ DirtyHasWriter'
    BY <1>1, <1>2, <2>1, <2>3
       DEF TypeOK, FileBehind, Contained, RefusedStaysOut, NothingSeenLate, DirtyHasWriter
  <2>5. AckedIsDurable'
    <3>1. (acked \ overtaken) \subseteq mem.nv
      BY DEF AckedIsDurable, FileBehind
    <3>2. CASE thread[c].ok /\ thread[c].kind = "nv"
      <4>1. acked' = acked \cup {thread[c].mark}
        BY <1>2, <3>2 DEF Answer
      <4>2. thread[c].mark \notin overtaken => thread[c].mark \in mem.nv
        BY <1>1, <3>2 DEF Remembered
      <4> QED
        BY <1>1, <1>2, <3>1, <4>1, <4>2 DEF AckedIsDurable
    <3>3. CASE ~(thread[c].ok /\ thread[c].kind = "nv")
      <4>1. acked' = acked
        BY <1>2, <3>3 DEF Answer
      <4> QED
        BY <1>1, <1>2, <3>1, <4>1 DEF AckedIsDurable
    <3> QED
      BY <3>2, <3>3
  <2> QED
    BY <2>3, <2>4, <2>5
<1>3. CASE UNCHANGED <<file, acked>> /\ Goto(c, "failed")
  <2>1. thread' = [thread EXCEPT ![c] = [thread[c] EXCEPT !.pc = "failed"]]
        /\ [thread[c] EXCEPT !.pc = "failed"] \in Thread
    BY <1>3 DEF Goto, TypeOK, Thread, Places
  <2>2. /\ \A d \in Clients \ {c} : thread'[d] = thread[d]
        /\ thread' \in [Clients -> Thread]
        /\ thread'[c].pc = "failed" /\ thread'[c].mark = thread[c].mark
        /\ thread'[c].kind = thread[c].kind /\ thread'[c].ok = thread[c].ok
        /\ thread'[c].writes_nv = thread[c].writes_nv
    BY <2>1 DEF TypeOK, Thread
  <2>3. TypeOK'
    BY <1>1, <1>3, <2>2 DEF TypeOK
  <2>4. OwnNumber'
    <3>1. \A d \in Clients : thread'[d].mark = thread[d].mark
                              /\ (thread'[d].pc = "idle" <=> thread[d].pc = "idle")
      BY <1>1, <2>2
    <3> QED
      BY <1>1, <3>1 DEF OwnNumber
  <2>5. NotYet' /\ Remembered'
    BY <1>1, <2>2 DEF NotYet, Remembered
  <2>6. DirtyHasWriter'
    BY <1>1, <1>3, <2>2 DEF DirtyHasWriter, WillWrite
  <2>7. FileBehind' /\ Contained' /\ NothingSeenLate' /\ AckedIsDurable'
    BY <1>1, <1>3 DEF FileBehind, Contained, RefusedStaysOut, NothingSeenLate, AckedIsDurable
  <2> QED
    BY <2>3, <2>4, <2>5, <2>6, <2>7
<1> QED
  BY <1>2, <1>3 DEF Persist

\* What is refused is not in the file, or is named in early; from here on
\* nothing is accepted until the file is read again.
LEMMA FailKeeps ==
  ASSUME IInv, NEW c \in Clients, Fail(c)
  PROVE  IInv'
<1> USE DEF IInv, At
<1>1. /\ UNCHANGED <<issued, late, overtaken, mem, file, started>>
      /\ nv_write_failed' = TRUE /\ failure_mode' = TRUE
      /\ thread[c].pc = "failed"
      /\ Numbers' = Numbers /\ Thread' = Thread /\ Contents' = Contents
  BY DEF Fail, Numbers, Thread, Contents
<1>2. /\ thread' = [thread EXCEPT ![c] = Idle]
      /\ acked' = acked
      /\ \/ UNCHANGED <<refused, early>>
         \/ /\ refused' = refused \cup {thread[c].mark}
            /\ early' = IF thread[c].mark \in file.nv \cup file.witness
                        THEN early \cup {thread[c].mark} ELSE early
  <2>1. CASE thread[c].writes_nv
    BY <2>1 DEF Fail
  <2>2. CASE ~thread[c].writes_nv
    <3>1. thread[c].kind # "nv"
      BY <1>1, <2>2 DEF Remembered
    <3> QED
      BY <2>2, <3>1 DEF Fail, Answer
  <2> QED
    BY <2>1, <2>2
<1>3. /\ thread' \in [Clients -> Thread'] /\ refused' \subseteq Numbers'
      /\ OwnNumber' /\ NotYet' /\ Remembered'
  BY <1>1, <1>2, DoneKeeps
<1>4. TypeOK' /\ FileBehind' /\ NothingSeenLate' /\ DirtyHasWriter' /\ AckedIsDurable'
  BY <1>1, <1>2, <1>3
     DEF TypeOK, FileBehind, NothingSeenLate, DirtyHasWriter, AckedIsDurable
<1>5. Contained'
  <2>1. RefusedStaysOut'
    BY <1>1, <1>2 DEF Contained, RefusedStaysOut
  <2> QED
    BY <1>1, <2>1 DEF Contained
<1> QED
  BY <1>3, <1>4, <1>5

\* Signals that touch neither the state file nor what memory has of it.
LEMMA SignalKeeps ==
  ASSUME IInv, started' \in BOOLEAN,
         UNCHANGED <<nv_write_failed, failure_mode, mem, file, issued, thread, history>>
  PROVE  IInv'
<1> USE DEF IInv, At
<1>1. Numbers' = Numbers /\ Thread' = Thread /\ Contents' = Contents
  BY DEF Numbers, Thread, Contents
<1>2. TypeOK' /\ OwnNumber' /\ NotYet' /\ Remembered' /\ DirtyHasWriter'
  BY <1>1 DEF TypeOK, OwnNumber, NotYet, Remembered, DirtyHasWriter, WillWrite, history
<1>3. FileBehind' /\ Contained' /\ NothingSeenLate' /\ AckedIsDurable'
  BY DEF FileBehind, Contained, RefusedStaysOut, NothingSeenLate, AckedIsDurable, history
<1> QED
  BY <1>2, <1>3

\* What power_off writes is what memory has while no failure is recorded.
LEMMA PowerOffPersistKeeps ==
  ASSUME IInv, PowerOffPersist
  PROVE  IInv'
<1> USE DEF IInv, At
<1>1. /\ UNCHANGED <<nv_write_failed, failure_mode, mem, issued, thread, history, started>>
      /\ Numbers' = Numbers /\ Thread' = Thread /\ Contents' = Contents
  BY DEF PowerOffPersist, Numbers, Thread, Contents
<1>2. CASE MayWrite /\ file' = mem
  <2>1. TypeOK' /\ OwnNumber' /\ NotYet' /\ Remembered' /\ DirtyHasWriter'
    BY <1>1, <1>2 DEF TypeOK, OwnNumber, NotYet, Remembered, DirtyHasWriter, history
  <2>2. FileBehind' /\ Contained' /\ NothingSeenLate' /\ AckedIsDurable'
    BY <1>1, <1>2 DEF FileBehind, Contained, RefusedStaysOut, NothingSeenLate,
      AckedIsDurable, MayWrite, history
  <2> QED
    BY <2>1, <2>2
<1>3. CASE UNCHANGED file
  BY <1>1, <1>3, SignalKeeps DEF TypeOK
<1> QED
  BY <1>2, <1>3 DEF PowerOffPersist

\* _TPM_Init reads the file again only after a failure; the commands under way
\* then have lost what they did and are named in overtaken.
LEMMA TpmInitKeeps ==
  ASSUME IInv, NEW readable \in BOOLEAN, TpmInit(readable)
  PROVE  IInv'
<1> USE DEF IInv, At
<1>1. /\ UNCHANGED <<file, issued, thread, acked, refused, early, late>>
      /\ started' = FALSE /\ failure_mode' = nv_write_failed'
      /\ Numbers' = Numbers /\ Thread' = Thread /\ Contents' = Contents
  BY DEF TpmInit, Numbers, Thread, Contents
<1>2. CASE nv_write_failed /\ readable
  <2>1. mem' = file /\ nv_write_failed' = FALSE /\ overtaken' = overtaken \cup UnderWay
    BY <1>2 DEF TpmInit
  <2>2. \A c \in Clients : thread[c].pc # "idle" => thread[c].mark \in UnderWay
    BY DEF UnderWay
  <2>3. TypeOK' /\ OwnNumber' /\ DirtyHasWriter'
    BY <1>1, <2>1 DEF TypeOK, OwnNumber, DirtyHasWriter
  <2>4. NotYet'
    BY <1>1, <2>1 DEF NotYet, FileBehind
  <2>5. Remembered'
    <3>1. \A c \in Clients : thread[c].pc \in {"after", "persist", "failed"}
            => thread[c].mark \in overtaken'
      BY <2>1, <2>2
    <3> QED
      BY <1>1, <3>1 DEF Remembered
  <2>6. FileBehind' /\ Contained' /\ NothingSeenLate' /\ AckedIsDurable'
    BY <1>1, <2>1 DEF FileBehind, Contained, RefusedStaysOut, NothingSeenLate, AckedIsDurable
  <2> QED
    BY <2>3, <2>4, <2>5, <2>6
<1>3. CASE ~(nv_write_failed /\ readable)
  <2>1. UNCHANGED <<mem, nv_write_failed, overtaken>>
    BY <1>3 DEF TpmInit
  <2>2. UNCHANGED <<failure_mode, history>> /\ started' \in BOOLEAN
    BY <1>1, <2>1 DEF Contained, history
  <2> QED
    BY <1>1, <2>1, <2>2, SignalKeeps
<1> QED
  BY <1>2, <1>3

\* A process that begins again has what the file has, and nobody is waiting.
LEMMA CrashKeeps ==
  ASSUME IInv, Crash
  PROVE  IInv'
<1> USE DEF IInv, At
<1>1. /\ UNCHANGED <<file, issued, history>> /\ mem' = file
      /\ started' = FALSE /\ nv_write_failed' = FALSE /\ failure_mode' = FALSE
      /\ Numbers' = Numbers /\ Thread' = Thread /\ Contents' = Contents
  BY DEF Crash, Numbers, Thread, Contents
<1>2. thread' \in [Clients -> Thread] /\ \A c \in Clients : thread'[c].pc = "idle"
  <2>1. Idle \in Thread /\ Idle.pc = "idle"
    BY DEF Idle, Thread, Places, Kinds
  <2> QED
    BY <2>1 DEF Crash
<1>3. TypeOK' /\ OwnNumber' /\ NotYet' /\ Remembered' /\ DirtyHasWriter'
  BY <1>1, <1>2 DEF TypeOK, OwnNumber, NotYet, Remembered, DirtyHasWriter, history
<1>4. FileBehind' /\ Contained' /\ NothingSeenLate' /\ AckedIsDurable'
  BY <1>1 DEF FileBehind, Contained, RefusedStaysOut, NothingSeenLate, AckedIsDurable, history
<1> QED
  BY <1>3, <1>4

\* Every step of a thread, of the platform and of the process keeps IInv.
LEMMA NextIInv == IInv /\ [Next]_vars => IInv'
<1> SUFFICES ASSUME IInv, [Next]_vars PROVE IInv'
  OBVIOUS
<1>1. CASE \E c \in Clients : \E kind \in Kinds : Receive(c, kind)
  BY <1>1, ReceiveKeeps
<1>2. CASE \E c \in Clients : Witness(c)
  BY <1>2, WitnessKeeps
<1>3. CASE \E c \in Clients : \E rolled \in BOOLEAN : Run(c, rolled)
  BY <1>3, RunKeeps
<1>4. CASE \E c \in Clients : Compare(c) \/ Persist(c) \/ Fail(c)
  BY <1>4, CompareKeeps, PersistKeeps, FailKeeps
<1>5. CASE PowerOn \/ PowerOffStore \/ PowerOffStop \/ \E on \in BOOLEAN : Nv(on)
  <2>1. /\ started' \in BOOLEAN
        /\ UNCHANGED <<nv_write_failed, failure_mode, mem, file, issued, thread, history>>
    BY <1>5 DEF PowerOn, PowerOffStore, PowerOffStop, Nv, IInv, TypeOK
  <2> QED
    BY <2>1, SignalKeeps
<1>6. CASE PowerOffPersist
  BY <1>6, PowerOffPersistKeeps
<1>7. CASE \E readable \in BOOLEAN : TpmInit(readable)
  BY <1>7, TpmInitKeeps
<1>8. CASE Crash
  BY <1>8, CrashKeeps
<1>9. CASE UNCHANGED vars
  <2>1. /\ started' \in BOOLEAN
        /\ UNCHANGED <<nv_write_failed, failure_mode, mem, file, issued, thread, history>>
    BY <1>9 DEF vars, state, IInv, TypeOK
  <2> QED
    BY <2>1, SignalKeeps
<1> QED
  BY <1>1, <1>2, <1>3, <1>4, <1>5, <1>6, <1>7, <1>8, <1>9 DEF Next

-----------------------------------------------------------------------------
\* The inductive invariant holds in every state of the device.
THEOREM DeviceIInv == Spec => []IInv
  BY InitIInv, NextIInv, PTL DEF Spec

\* Whatever order the lock sections of the connections, the power signals and
\* the restarts come in, what a refused command did never becomes permanent
\* after its refusal (device.rs, persist and execute).
THEOREM DeviceRefusedStaysOut == Spec => []RefusedStaysOut
<1>1. IInv => RefusedStaysOut
  BY DEF IInv, Contained
<1> QED
  BY <1>1, DeviceIInv, PTL

\* An nv command that was answered with success is in the file for good, unless
\* the file was read again while it was under way.
THEOREM DeviceAckedIsDurable == Spec => []AckedIsDurable
<1>1. IInv => AckedIsDurable
  BY DEF IInv
<1> QED
  BY <1>1, DeviceIInv, PTL

\* No command that comes after a refusal runs on what the refused one left.
THEOREM DeviceNothingSeenLate == Spec => []NothingSeenLate
<1>1. IInv => NothingSeenLate
  BY DEF IInv
<1> QED
  BY <1>1, DeviceIInv, PTL

\* A device between commands has written everything, those changes too that
\* only the witness tells of.
THEOREM DeviceQuietIsSaved == Spec => []QuietIsSaved
<1>1. IInv => QuietIsSaved
  BY DEF IInv, DirtyHasWriter, WillWrite, QuietIsSaved, At
<1> QED
  BY <1>1, DeviceIInv, PTL

-----------------------------------------------------------------------------
(* Objects.  The invariant.                                                *)

Hierarchies == Bases \cup DOMAIN LimitedBase

IsSequence(q) == Len(q) \in Nat /\ q = [i \in 1 .. Len(q) |-> q[i]]

\* The end of a Qualified Name is the object, and what is before it the parent: a key that
\* may not leave its parent has one that may not leave either.
WellNamed(o) ==
  LET q == o.qualified_name
      n == Len(q)
  IN  /\ IsSequence(q) /\ n >= 2
      /\ q[n] = Name(o)
      /\ n > 2 /\ o.key.tied => q[n - 1].key.tied /\ q[n - 1].key.root = o.key.root

Sound(o) ==
  /\ o = [key |-> o.key, public |-> o.public, sensitive |-> o.sensitive,
          hierarchy |-> o.hierarchy, qualified_name |-> o.qualified_name,
          tpm_generated |-> o.tpm_generated, state_clear |-> o.state_clear,
          since |-> o.since, boot |-> o.boot]
  /\ o.hierarchy \in Hierarchies
  /\ o.public \in Publics
  /\ {o.sensitive, o.state_clear, o.tpm_generated} \subseteq BOOLEAN
  /\ o.key.tied => o.public.fixedParent
  /\ WellNamed(o)
  /\ StateClear(o) => o.state_clear

\* The object is one of the hierarchy there is.
Current(o) ==
  /\ o.since = proof[BaseOf(o.hierarchy)]
  /\ o.key.tied => o.key.root = <<BaseOf(o.hierarchy), seed[BaseOf(o.hierarchy)]>>

InSlot(o) ==
  /\ Sound(o) /\ Current(o)
  /\ IsEnabled(o.hierarchy)
  /\ o.state_clear => o.boot = boots

\* What a half of the persistent range may hold.
HierarchiesOf(p) == IF p \in PLATFORM_PERSISTENT THEN {"platform"} ELSE {"owner", "endorsement"}

InNv(p, o) ==
  /\ Sound(o) /\ Current(o)
  /\ o.hierarchy \in HierarchiesOf(p)
  /\ ~o.state_clear

\* A context opens only while the proof and the counters are those it was saved with.
SoundContext(c) ==
  LET o == UnmarshalObject(c.body, c.state_clear)
      b == BaseOf(c.hierarchy)
  IN  /\ Sound(o) /\ o.hierarchy = c.hierarchy
      /\ c.proof \in Nat /\ c.proof <= proof[b] /\ o.since = c.proof
      /\ c.proof = proof[b] /\ o.key.tied => o.key.root = <<b, seed[b]>>
      /\ c.state_clear =>
           LET r == c.counters[1]
               n == c.counters[2]
           IN  /\ c.counters = <<r, n>>
               /\ r \in 0 .. reset /\ n \in Nat
               /\ r = reset => n <= cleared /\ (n = cleared => o.boot = boots)

\* A private area under a parent that may leave holds a key that may.
SoundPrivate(k) ==
  /\ k.public \in Publics
  /\ k.key.tied => k.public.fixedParent /\ k.under.tied /\ k.under.root = k.key.root

\* What is duplicated may leave.
SoundDuplicate(d) ==
  /\ d = [is |-> "duplicate", to |-> d.to, key |-> d.key, public |-> d.public]
  /\ d.public \in Publics
  /\ ~d.key.tied

Outside(k) ==
  \/ k.is = "context" /\ SoundContext(k)
  \/ k.is = "private" /\ SoundPrivate(k)
  \/ k.is = "duplicate" /\ SoundDuplicate(k)

ObjectsTypes ==
  /\ enabled \in [Bases \ {"null"} -> BOOLEAN]
  /\ seed \in [Bases -> Nat] /\ proof \in [Bases -> Nat]
  /\ {reset, cleared, made, turns, boots} \subseteq Nat
  /\ IsFiniteSet(loaded) /\ Cardinality(loaded) <= MaxLoaded
  /\ DOMAIN persistent = Persistent

ObjectsIInv ==
  /\ ObjectsTypes
  /\ \A o \in loaded : InSlot(o)
  /\ \A p \in Persistent : \A o \in persistent[p] : InNv(p, o)
  /\ \A k \in kept : Outside(k)

-----------------------------------------------------------------------------
(* Objects.  Names.                                                        *)

LEMMA SequenceIn ==
  ASSUME NEW q, IsSequence(q)
  PROVE  q \in Seq({q[i] : i \in 1 .. Len(q)})
<1> DEFINE S == {q[i] : i \in 1 .. Len(q)}
           n == Len(q)
<1>1. n \in Nat /\ q = [i \in 1 .. n |-> q[i]] /\ \A i \in 1 .. n : q[i] \in S
  BY DEF IsSequence
<1> HIDE DEF S, n
<1>2. q \in [1 .. n -> S]
  BY <1>1
<1>3. q \in Seq(S)
  BY <1>1, <1>2
<1> QED
  BY <1>3 DEF S, n

LEMMA SequenceIs ==
  ASSUME NEW S, NEW q \in Seq(S)
  PROVE  IsSequence(q)
<1>1. Len(q) \in Nat /\ DOMAIN q = 1 .. Len(q)
  OBVIOUS
<1> QED
  BY <1>1 DEF IsSequence

LEMMA AppendIs ==
  ASSUME NEW q, IsSequence(q), NEW x
  PROVE  LET r == Append(q, x) IN
         /\ IsSequence(r) /\ Len(r) = Len(q) + 1 /\ Len(q) \in Nat
         /\ \A i \in 1 .. Len(q) : r[i] = q[i]
         /\ r[Len(q) + 1] = x
<1> DEFINE S == {q[i] : i \in 1 .. Len(q)} \cup {x}
<1>1. q \in Seq(S)
  <2>1. q \in Seq({q[i] : i \in 1 .. Len(q)})
    BY SequenceIn
  <2> DEFINE T == {q[i] : i \in 1 .. Len(q)}
  <2> HIDE DEF T
  <2>2. q \in Seq(T) => q \in Seq(T \cup {x})
    OBVIOUS
  <2> QED
    BY <2>1, <2>2 DEF T
<1>2. x \in S
  OBVIOUS
<1> HIDE DEF S
<1>3. Append(q, x) \in Seq(S)
  BY <1>1, <1>2
<1>4. IsSequence(Append(q, x))
  BY <1>3, SequenceIs
<1> QED
  BY <1>1, <1>2, <1>4

LEMMA HierarchiesAre ==
  /\ \A h \in Hierarchies : BaseOf(h) \in Bases
  /\ \A b \in Bases : b \in Hierarchies /\ BaseOf(b) = b
  /\ \A o : o.hierarchy \in Hierarchies =>
       \A b \in Bases : Belongs(o, b) <=> BaseOf(o.hierarchy) = b
<1>1. \A h \in DOMAIN LimitedBase : LimitedBase[h] \in Bases
  BY DEF LimitedBase, Bases
<1>2. \A b \in Bases : b \notin DOMAIN LimitedBase
  BY DEF LimitedBase, Bases
<1>3. \A h \in Hierarchies : h \in Bases \/ h \in DOMAIN LimitedBase
  BY DEF Hierarchies
<1>4. \A h \in Hierarchies : BaseOf(h) \in Bases
  BY <1>1, <1>2, <1>3 DEF BaseOf, IsLimited
<1>5. \A b \in Bases : b \in Hierarchies /\ BaseOf(b) = b
  BY <1>2 DEF Hierarchies, BaseOf, IsLimited
<1>6. ASSUME NEW o, o.hierarchy \in Hierarchies, NEW b \in Bases
      PROVE  Belongs(o, b) <=> BaseOf(o.hierarchy) = b
  <2>1. CASE o.hierarchy \in Bases
    BY <1>2, <1>5, <2>1 DEF Belongs, IsLimited
  <2>2. CASE o.hierarchy \in DOMAIN LimitedBase
    BY <1>2, <1>6, <2>2 DEF Belongs, IsLimited
  <2> QED
    BY <1>3, <1>6, <2>1, <2>2
<1> QED
  BY <1>4, <1>5, <1>6

\* An object that enters a slot under a hierarchy or under its parent.
LEMMA MadeIs ==
  ASSUME NEW o, NEW key, NEW public \in Publics, NEW sensitive \in BOOLEAN, NEW h \in Hierarchies,
         NEW q, IsSequence(q), Len(q) >= 1, NEW generated \in BOOLEAN, NEW clears \in BOOLEAN,
         o = [key |-> key, public |-> public, sensitive |-> sensitive, hierarchy |-> h,
              qualified_name |-> Append(q, [key |-> key, public |-> public]),
              tpm_generated |-> generated, state_clear |-> clears,
              since |-> proof[BaseOf(h)], boot |-> boots],
         public.stClear => clears,
         (\E i \in 2 .. Len(q) : q[i].public.stClear) => clears,
         key.tied => public.fixedParent,
         Len(q) > 1 /\ key.tied => q[Len(q)].key.tied /\ q[Len(q)].key.root = key.root,
         key.tied => key.root = <<BaseOf(h), seed[BaseOf(h)]>>,
         IsEnabled(h)
  PROVE  InSlot(o)
<1> DEFINE name == [key |-> key, public |-> public]
           r == Append(q, name)
<1>1. /\ o.key = key /\ o.public = public /\ o.sensitive = sensitive /\ o.hierarchy = h
      /\ o.qualified_name = r /\ o.tpm_generated = generated /\ o.state_clear = clears
      /\ o.since = proof[BaseOf(h)] /\ o.boot = boots
  OBVIOUS
<1>2. /\ IsSequence(r) /\ Len(r) = Len(q) + 1 /\ Len(q) \in Nat
      /\ \A i \in 1 .. Len(q) : r[i] = q[i]
      /\ r[Len(q) + 1] = name
  BY AppendIs
<1>3. name.public = public /\ name = Name(o)
  BY <1>1 DEF Name
<1> HIDE DEF r, name
<1>4. WellNamed(o)
  <2>1. Len(r) >= 2 /\ r[Len(r)] = name
    BY <1>2
  <2>2. Len(r) > 2 => Len(q) > 1 /\ r[Len(r) - 1] = q[Len(q)]
    BY <1>2
  <2> QED
    BY <1>1, <1>2, <1>3, <2>1, <2>2 DEF WellNamed
<1>5. StateClear(o) => clears
  <2> SUFFICES ASSUME NEW i \in 2 .. Len(r), r[i].public.stClear PROVE clears
    BY <1>1 DEF StateClear
  <2>1. CASE i = Len(r)
    BY <1>2, <1>3, <2>1
  <2>2. CASE i # Len(r)
    <3>1. i \in 2 .. Len(q) /\ i \in 1 .. Len(q)
      BY <1>2, <2>2
    <3> QED
      BY <1>2, <3>1
  <2> QED
    BY <2>1, <2>2
<1>6. Sound(o)
  BY <1>1, <1>4, <1>5 DEF Sound
<1>7. Current(o)
  BY <1>1 DEF Current
<1> QED
  BY <1>1, <1>6, <1>7 DEF InSlot

\* A child takes the place that its parent gives it.
LEMMA ChildIs ==
  ASSUME NEW p, Sound(p), Current(p), IsEnabled(p.hierarchy),
         NEW key, NEW public \in Publics, NEW generated \in BOOLEAN,
         key.tied => public.fixedParent /\ p.key.tied /\ p.key.root = key.root
  PROVE  InSlot(Child(p, key, public, generated))
<1> DEFINE q == p.qualified_name
           clears == public.stClear \/ p.state_clear
           o == Child(p, key, public, generated)
<1>1. /\ IsSequence(q) /\ Len(q) >= 1 /\ q[Len(q)] = Name(p) /\ p.hierarchy \in Hierarchies
  BY DEF Sound, WellNamed, IsSequence
<1>2. clears \in BOOLEAN
  BY DEF Publics, Sound
<1>3. o = [key |-> key, public |-> public, sensitive |-> TRUE, hierarchy |-> p.hierarchy,
           qualified_name |-> Append(q, [key |-> key, public |-> public]),
           tpm_generated |-> generated, state_clear |-> clears,
           since |-> proof[BaseOf(p.hierarchy)], boot |-> boots]
  <2> DEFINE r == Append(q, [key |-> key, public |-> public])
             w == NewObject(key, public, TRUE, p.hierarchy, q, generated)
  <2>1. w = [key |-> key, public |-> public, sensitive |-> TRUE, hierarchy |-> p.hierarchy,
             qualified_name |-> r, tpm_generated |-> generated, state_clear |-> public.stClear,
             since |-> proof[BaseOf(p.hierarchy)], boot |-> boots]
    BY DEF NewObject, QualifiedName
  <2>2. o = [w EXCEPT !.state_clear = @ \/ p.state_clear]
    BY DEF Child
  <2> HIDE DEF w, r, o
  <2>3. (w.state_clear \/ p.state_clear) = clears
    BY <2>1
  <2>4. o = [w EXCEPT !.state_clear = clears]
    BY <2>2, <2>3
  <2> HIDE DEF clears
  <2> QED
    BY <2>1, <2>4 DEF r
<1>4. q[Len(q)].key = p.key
  BY <1>1 DEF Name
<1>5. (\E i \in 2 .. Len(q) : q[i].public.stClear) => clears
  BY DEF Sound, StateClear
<1>6. key.tied => key.root = <<BaseOf(p.hierarchy), seed[BaseOf(p.hierarchy)]>>
  BY DEF Current
<1>7. public.stClear => clears
  OBVIOUS
<1> HIDE DEF o, clears, q
<1> QED
  BY <1>1, <1>2, <1>3, <1>4, <1>5, <1>6, <1>7, MadeIs DEF o

-----------------------------------------------------------------------------
(* Objects.  Steps that leave the hierarchies as they are.                 *)

LEMMA ObjectsInitHolds == ObjectsInit => ObjectsIInv
<1> SUFFICES ASSUME ObjectsInit PROVE ObjectsIInv
  OBVIOUS
<1>1. IsFiniteSet({}) /\ Cardinality({}) = 0
  BY FS_EmptySet
<1>2. MaxLoaded \in Nat
  BY ObjectsAssumption DEF ObjectsAssumption
<1>3. ObjectsTypes
  BY <1>1, <1>2 DEF ObjectsInit, ObjectsTypes
<1> QED
  BY <1>3 DEF ObjectsInit, ObjectsIInv

\* What is new is as it should be.
LEMMA QuietStep ==
  ASSUME ObjectsIInv, UNCHANGED <<hierarchies, clocks>>, made' \in Nat, turns' \in Nat,
         IsFiniteSet(loaded') /\ Cardinality(loaded') <= MaxLoaded,
         DOMAIN persistent' = Persistent,
         \A o \in loaded' : o \in loaded \/ InSlot(o),
         \A p \in Persistent : \A o \in persistent'[p] : o \in persistent[p] \/ InNv(p, o),
         \A k \in kept' : k \in kept \/ Outside(k)
  PROVE  ObjectsIInv'
<1>1. UNCHANGED <<enabled, seed, proof, reset, cleared, boots>>
  BY DEF hierarchies, clocks
<1>2. ObjectsTypes'
  BY <1>1 DEF ObjectsIInv, ObjectsTypes
<1>3. \A o : Current(o)' = Current(o) /\ IsEnabled(o.hierarchy)' = IsEnabled(o.hierarchy)
  BY <1>1 DEF Current, IsEnabled
<1>4. ASSUME NEW o \in loaded' PROVE InSlot(o)'
  <2>1. InSlot(o)
    BY DEF ObjectsIInv
  <2> QED
    BY <1>1, <1>3, <2>1 DEF InSlot
<1>5. ASSUME NEW p \in Persistent, NEW o \in persistent'[p] PROVE InNv(p, o)'
  <2>1. InNv(p, o)
    BY DEF ObjectsIInv
  <2> QED
    BY <1>3, <2>1 DEF InNv
<1>6. ASSUME NEW k \in kept' PROVE Outside(k)'
  <2>1. Outside(k)
    BY DEF ObjectsIInv
  <2> QED
    BY <1>1, <2>1 DEF Outside, SoundContext
<1> QED
  BY <1>2, <1>4, <1>5, <1>6 DEF ObjectsIInv

LEMMA ResidentIs ==
  ASSUME ObjectsIInv, NEW o \in Resident
  PROVE  Sound(o) /\ Current(o)
<1>1. o \in loaded \/ \E p \in Persistent : o \in persistent[p]
  BY DEF Resident
<1> QED
  BY <1>1 DEF ObjectsIInv, InSlot, InNv

LEMMA OutsideIs ==
  ASSUME ObjectsIInv
  PROVE  /\ \A k \in contexts : SoundContext(k)
         /\ \A k \in privates : SoundPrivate(k)
         /\ \A k \in duplicates : SoundDuplicate(k)
BY DEF ObjectsIInv, contexts, privates, duplicates, Outside

LEMMA InsertIs ==
  ASSUME ObjectsIInv, NEW o, Insert(o)
  PROVE  /\ IsFiniteSet(loaded') /\ Cardinality(loaded') <= MaxLoaded
         /\ loaded' = loaded \cup {o}
<1>1. IsFiniteSet(loaded) /\ Cardinality(loaded) < MaxLoaded /\ loaded' = loaded \cup {o}
  BY DEF ObjectsIInv, ObjectsTypes, Insert
<1>2. IsFiniteSet(loaded \cup {o})
        /\ Cardinality(loaded \cup {o}) \in {Cardinality(loaded), Cardinality(loaded) + 1}
  BY <1>1, FS_AddElement
<1>3. Cardinality(loaded) \in Nat /\ MaxLoaded \in Nat
  BY <1>1, FS_CardinalityType, ObjectsAssumption DEF ObjectsAssumption
<1> QED
  BY <1>1, <1>2, <1>3

\* One object more in a slot.
LEMMA EnterKeeps ==
  ASSUME ObjectsIInv, NEW o, InSlot(o), Insert(o),
         UNCHANGED <<hierarchies, clocks, persistent, turns>>, made' \in Nat,
         \A k \in kept' : k \in kept \/ Outside(k)
  PROVE  ObjectsIInv'
<1>1. DOMAIN persistent' = Persistent /\ turns' \in Nat
  BY DEF ObjectsIInv, ObjectsTypes
<1> QED
  BY <1>1, InsertIs, QuietStep

\* One thing more that a caller keeps.
LEMMA KeepKeeps ==
  ASSUME ObjectsIInv, NEW x, Outside(x), Keep(x),
         UNCHANGED <<hierarchies, clocks, loaded, persistent, turns>>, made' \in Nat
  PROVE  ObjectsIInv'
<1>1. /\ DOMAIN persistent' = Persistent /\ turns' \in Nat
      /\ IsFiniteSet(loaded') /\ Cardinality(loaded') <= MaxLoaded
  BY DEF ObjectsIInv, ObjectsTypes
<1>2. \A k \in kept' : k \in kept \/ Outside(k)
  BY DEF Keep
<1> QED
  BY <1>1, <1>2, QuietStep

LEMMA MadeType ==
  ASSUME ObjectsIInv, Makes \/ UNCHANGED made
  PROVE  made' \in Nat
BY DEF ObjectsIInv, ObjectsTypes, Makes

LEMMA CreatePrimaryKeeps ==
  ASSUME ObjectsIInv, NEW a \in Primaries, CreatePrimary(a[1], a[2])
  PROVE  ObjectsIInv'
<1> DEFINE h == a[1]
           t == a[2]
           key == PrimaryKey(h, t)
           o == NewObject(key, t, TRUE, h, <<h>>, TRUE)
<1>1. h \in Hierarchies /\ t \in Publics
  BY ObjectsAssumption DEF ObjectsAssumption, Hierarchies
<1>2. /\ Insert(o) /\ Makes /\ IsEnabled(h)
      /\ UNCHANGED <<hierarchies, clocks, persistent, kept, turns>>
  BY DEF CreatePrimary
<1>3. o = [key |-> key, public |-> t, sensitive |-> TRUE, hierarchy |-> h,
           qualified_name |-> Append(<<h>>, [key |-> key, public |-> t]),
           tpm_generated |-> TRUE, state_clear |-> t.stClear,
           since |-> proof[BaseOf(h)], boot |-> boots]
  BY DEF NewObject, QualifiedName
<1>4. key.tied = t.fixedParent /\ key.root = <<BaseOf(h), seed[BaseOf(h)]>>
  BY DEF PrimaryKey
<1>5. IsSequence(<<h>>) /\ Len(<<h>>) = 1
  <2>1. <<h>> \in Seq({h})
    OBVIOUS
  <2> QED
    BY <2>1, SequenceIs
<1>6. t.stClear \in BOOLEAN
  BY <1>1 DEF Publics
<1>7. ~(\E i \in 2 .. Len(<<h>>) : <<h>>[i].public.stClear) /\ ~(Len(<<h>>) > 1) /\ Len(<<h>>) >= 1
  BY <1>5
<1> HIDE DEF o, key, h, t
<1>8. InSlot(o)
  BY <1>1, <1>2, <1>3, <1>4, <1>5, <1>6, <1>7, MadeIs
<1> QED
  BY <1>2, <1>8, MadeType, EnterKeeps

LEMMA LoadExternalKeeps ==
  ASSUME ObjectsIInv, NEW a \in Externals, LoadExternal(a[1], a[2], a[3])
  PROVE  ObjectsIInv'
<1> DEFINE h == a[1]
           t == a[2]
           key == [id |-> <<"external">>, root |-> <<"outside", 0>>, tied |-> FALSE]
           o == NewObject(key, t, a[3], h, <<h>>, FALSE)
<1>1. h \in Hierarchies /\ t \in Publics /\ a[3] \in BOOLEAN
  BY ObjectsAssumption DEF ObjectsAssumption, Hierarchies
<1>2. /\ Insert(o) /\ Makes /\ IsEnabled(h)
      /\ UNCHANGED <<hierarchies, clocks, persistent, kept, turns>>
  BY DEF LoadExternal
<1>3. o = [key |-> key, public |-> t, sensitive |-> a[3], hierarchy |-> h,
           qualified_name |-> Append(<<h>>, [key |-> key, public |-> t]),
           tpm_generated |-> FALSE, state_clear |-> t.stClear,
           since |-> proof[BaseOf(h)], boot |-> boots]
  BY DEF NewObject, QualifiedName
<1>4. ~key.tied
  OBVIOUS
<1>5. IsSequence(<<h>>) /\ Len(<<h>>) = 1
  <2>1. <<h>> \in Seq({h})
    OBVIOUS
  <2> QED
    BY <2>1, SequenceIs
<1>6. t.stClear \in BOOLEAN
  BY <1>1 DEF Publics
<1>7. ~(\E i \in 2 .. Len(<<h>>) : <<h>>[i].public.stClear) /\ ~(Len(<<h>>) > 1) /\ Len(<<h>>) >= 1
  BY <1>5
<1> HIDE DEF o, key, h, t
<1>8. InSlot(o)
  BY <1>1, <1>2, <1>3, <1>4, <1>5, <1>6, <1>7, MadeIs
<1> QED
  BY <1>2, <1>8, MadeType, EnterKeeps

\* A fresh child of a parent in use, kept as a private area.
LEMMA ChildKeyIs ==
  ASSUME NEW p, NEW t \in Publics
  PROVE  /\ ChildKey(p, t).tied => t.fixedParent /\ p.key.tied
         /\ ChildKey(p, t).root = p.key.root
         /\ DerivedKey(p, t).tied => t.fixedParent /\ p.key.tied
         /\ DerivedKey(p, t).root = p.key.root
         /\ Outside(Wrap(p, ChildKey(p, t), t))
BY DEF ChildKey, DerivedKey, Wrap, Outside, SoundPrivate

LEMMA CreateKeeps ==
  ASSUME ObjectsIInv, NEW p \in Resident, NEW t \in Children, Create(p, t) \/ CreateLoaded(p, t)
  PROVE  ObjectsIInv'
<1>1. t \in Publics /\ Sound(p) /\ Current(p) /\ IsEnabled(p.hierarchy)
  BY ResidentIs, ObjectsAssumption DEF ObjectsAssumption, Create, CreateLoaded, Usable
<1>2. made' \in Nat
  BY MadeType DEF Create, CreateLoaded
<1>3. CASE Create(p, t)
  BY <1>1, <1>2, <1>3, ChildKeyIs, KeepKeeps DEF Create
<1>4. CASE CreateLoaded(p, t) /\ DeriveObject(p, t)
  <2>1. InSlot(Child(p, DerivedKey(p, t), t, TRUE))
    BY <1>1, ChildKeyIs, ChildIs
  <2>2. UNCHANGED <<hierarchies, clocks, persistent, kept, turns>>
    BY <1>4 DEF CreateLoaded, DeriveObject
  <2> QED
    BY <1>2, <1>4, <2>1, <2>2, EnterKeeps DEF DeriveObject
<1>5. CASE /\ CreateLoaded(p, t) /\ Insert(Child(p, ChildKey(p, t), t, TRUE))
           /\ Keep(Wrap(p, ChildKey(p, t), t))
  <2>1. InSlot(Child(p, ChildKey(p, t), t, TRUE))
    BY <1>1, ChildKeyIs, ChildIs
  <2>2. \A k \in kept' : k \in kept \/ Outside(k)
    BY <1>1, <1>5, ChildKeyIs DEF Keep
  <2>3. UNCHANGED <<hierarchies, clocks, persistent, turns>>
    BY <1>5 DEF CreateLoaded
  <2> QED
    BY <1>2, <1>5, <2>1, <2>2, <2>3, EnterKeeps
<1> QED
  BY <1>3, <1>4, <1>5 DEF CreateLoaded

LEMMA LoadKeeps ==
  ASSUME ObjectsIInv, NEW p \in Resident, NEW b \in privates, Load(p, b)
  PROVE  ObjectsIInv'
<1>1. Sound(p) /\ Current(p) /\ IsEnabled(p.hierarchy) /\ SoundPrivate(b) /\ b.under = p.key
  BY ResidentIs, OutsideIs DEF Load, Usable, Unwraps
<1>2. InSlot(Child(p, b.key, b.public, FALSE))
  BY <1>1, ChildIs DEF SoundPrivate
<1> QED
  BY <1>2, MadeType, EnterKeeps DEF Load

LEMMA ObjectChangeAuthKeeps ==
  ASSUME ObjectsIInv, NEW o \in Resident, NEW p \in Resident, ObjectChangeAuth(o, p)
  PROVE  ObjectsIInv'
<1> DEFINE q == p.qualified_name
           r == o.qualified_name
<1>1. Sound(o) /\ Sound(p)
  BY ResidentIs
<1>2. r = Append(q, Name(o))
  BY DEF ObjectChangeAuth, QualifiedName
<1>3. IsSequence(q) /\ Len(q) >= 2 /\ q[Len(q)] = Name(p)
  BY <1>1 DEF Sound, WellNamed
<1>4. Len(r) = Len(q) + 1 /\ Len(q) \in Nat /\ \A i \in 1 .. Len(q) : r[i] = q[i]
  BY <1>2, <1>3, AppendIs
<1>5. o.key.tied /\ Len(r) > 2 => r[Len(r) - 1].key.tied /\ r[Len(r) - 1].key.root = o.key.root
  BY <1>1 DEF Sound, WellNamed
<1> HIDE DEF q, r
<1>6. r[Len(r) - 1].key = p.key /\ Len(r) > 2
  <2>1. Len(r) - 1 = Len(q) /\ Len(q) \in 1 .. Len(q) /\ Len(r) > 2
    BY <1>3, <1>4
  <2>2. r[Len(r) - 1] = Name(p)
    BY <1>3, <1>4, <2>1
  <2> QED
    BY <2>1, <2>2 DEF Name
<1>7. Outside(Wrap(p, o.key, o.public))
  BY <1>1, <1>5, <1>6 DEF Sound, Outside, SoundPrivate, Wrap
<1> QED
  BY <1>7, MadeType, KeepKeeps DEF ObjectChangeAuth

LEMMA DuplicationKeeps ==
  ASSUME ObjectsIInv,
         \/ \E o \in Resident, to \in NewParents : Duplicate(o, to)
         \/ \E d \in duplicates, to \in NewParents : Rewrap(d, to)
         \/ \E p \in Resident, d \in duplicates : Import(p, d)
  PROVE  ObjectsIInv'
<1>1. ASSUME NEW o \in Resident, NEW to, Duplicate(o, to) PROVE ObjectsIInv'
  <2> DEFINE d == [is |-> "duplicate", to |-> to, key |-> o.key, public |-> o.public]
  <2>1. Outside(d)
    BY <1>1, ResidentIs DEF Duplicate, Sound, Outside, SoundDuplicate
  <2> HIDE DEF d
  <2> QED
    BY <1>1, <2>1, MadeType, KeepKeeps DEF Duplicate, d
<1>2. ASSUME NEW d \in duplicates, NEW to, Rewrap(d, to) PROVE ObjectsIInv'
  <2> DEFINE x == [d EXCEPT !.to = to]
  <2>1. SoundDuplicate(d)
    BY OutsideIs
  <2>2. x = [is |-> "duplicate", to |-> to, key |-> d.key, public |-> d.public]
    BY <2>1 DEF SoundDuplicate
  <2> HIDE DEF x
  <2>3. Outside(x)
    BY <2>1, <2>2 DEF Outside, SoundDuplicate
  <2> QED
    BY <1>2, <2>3, MadeType, KeepKeeps DEF Rewrap, x
<1>3. ASSUME NEW p \in Resident, NEW d \in duplicates, Import(p, d) PROVE ObjectsIInv'
  <2>1. SoundDuplicate(d)
    BY OutsideIs
  <2>2. Outside(Wrap(p, d.key, d.public))
    BY <2>1 DEF SoundDuplicate, Outside, SoundPrivate, Wrap
  <2> QED
    BY <1>3, <2>2, MadeType, KeepKeeps DEF Import
<1> QED
  BY <1>1, <1>2, <1>3

-----------------------------------------------------------------------------
(* Objects.  Contexts and persistent objects.                              *)

LEMMA UnmarshalIs ==
  ASSUME NEW o, Sound(o)
  PROVE  UnmarshalObject(MarshalObject(o), o.state_clear) = o
<1>1. o = [key |-> o.key, public |-> o.public, sensitive |-> o.sensitive,
           hierarchy |-> o.hierarchy, qualified_name |-> o.qualified_name,
           tpm_generated |-> o.tpm_generated, state_clear |-> o.state_clear,
           since |-> o.since, boot |-> o.boot]
  BY DEF Sound
<1> QED
  BY <1>1 DEF MarshalObject, UnmarshalObject

LEMMA ContextSaveKeeps ==
  ASSUME ObjectsIInv, NEW o \in loaded, ContextSave(o)
  PROVE  ObjectsIInv'
<1> DEFINE c == SealContext(o)
           b == BaseOf(o.hierarchy)
<1>1. InSlot(o) /\ ObjectsTypes
  BY DEF ObjectsIInv
<1>2. /\ c.is = "context" /\ c.body = MarshalObject(o) /\ c.state_clear = o.state_clear
      /\ c.hierarchy = o.hierarchy /\ c.proof = proof[b]
      /\ c.counters = ContextCounters(o.state_clear)
  BY DEF SealContext
<1>3. UnmarshalObject(c.body, c.state_clear) = o
  BY <1>1, <1>2, UnmarshalIs DEF InSlot
<1>4. b \in Bases
  BY <1>1, HierarchiesAre DEF InSlot, Sound
<1>5. c.proof \in Nat /\ c.proof <= proof[b] /\ o.since = c.proof
  BY <1>1, <1>2, <1>4 DEF ObjectsTypes, InSlot, Current
<1>6. o.key.tied => o.key.root = <<b, seed[b]>>
  BY <1>1 DEF InSlot, Current
<1>7. c.state_clear => /\ c.counters = <<c.counters[1], c.counters[2]>>
                       /\ c.counters[1] = reset /\ c.counters[2] = cleared /\ o.boot = boots
  BY <1>1, <1>2 DEF ContextCounters, InSlot
<1>8. reset \in 0 .. reset /\ cleared \in Nat
  BY <1>1 DEF ObjectsTypes
<1> HIDE DEF c
<1>9. SoundContext(c)
  BY <1>1, <1>2, <1>3, <1>5, <1>6, <1>7, <1>8 DEF SoundContext, InSlot
<1>10. Outside(c)
  BY <1>2, <1>9 DEF Outside
<1> QED
  BY <1>10, MadeType, KeepKeeps DEF ContextSave, c

LEMMA ContextLoadKeeps ==
  ASSUME ObjectsIInv, NEW c \in contexts, ContextLoad(c)
  PROVE  ObjectsIInv'
<1> DEFINE o == UnmarshalObject(c.body, c.state_clear)
           b == BaseOf(c.hierarchy)
<1>1. o.state_clear = c.state_clear
  BY DEF UnmarshalObject
<1>2. SoundContext(c)
  BY OutsideIs
<1>3. /\ IsEnabled(c.hierarchy) /\ Insert(o) /\ c.proof = proof[b]
      /\ c.counters = ContextCounters(c.state_clear)
      /\ UNCHANGED <<hierarchies, clocks, persistent, kept, made, turns>>
  BY DEF ContextLoad, OpensContext
<1> HIDE DEF o
<1>4. Sound(o) /\ o.hierarchy = c.hierarchy /\ Current(o)
  BY <1>2, <1>3 DEF SoundContext, Current, o
<1>5. c.state_clear => o.boot = boots
  <2>1. c.state_clear => c.counters[1] = reset /\ c.counters[2] = cleared
    BY <1>3 DEF ContextCounters
  <2>2. c.state_clear => (c.counters[1] = reset /\ c.counters[2] = cleared => o.boot = boots)
    BY <1>2 DEF SoundContext, o
  <2> QED
    BY <2>1, <2>2
<1>6. InSlot(o)
  BY <1>1, <1>3, <1>4, <1>5 DEF InSlot
<1> QED
  BY <1>3, <1>6, MadeType, EnterKeeps

LEMMA FlushObjectKeeps ==
  ASSUME ObjectsIInv, NEW o \in loaded, FlushContext(o)
  PROVE  ObjectsIInv'
<1>1. loaded' \subseteq loaded /\ UNCHANGED <<hierarchies, clocks, persistent, kept, made, turns>>
  BY DEF FlushContext
<1>2. ObjectsTypes /\ IsFiniteSet(loaded') /\ Cardinality(loaded') <= Cardinality(loaded)
  BY <1>1, FS_Subset DEF ObjectsIInv, ObjectsTypes
<1>3. Cardinality(loaded') <= MaxLoaded
  <2>1. Cardinality(loaded) \in Nat /\ Cardinality(loaded') \in Nat /\ MaxLoaded \in Nat
    BY <1>2, FS_CardinalityType, ObjectsAssumption DEF ObjectsTypes, ObjectsAssumption
  <2> QED
    BY <1>2, <2>1 DEF ObjectsTypes
<1>4. made' \in Nat /\ turns' \in Nat /\ DOMAIN persistent' = Persistent
  BY <1>1, <1>2 DEF ObjectsTypes
<1> QED
  BY <1>1, <1>2, <1>3, <1>4, QuietStep

LEMMA EvictControlKeeps ==
  ASSUME ObjectsIInv,
         \/ \E auth \in {"owner", "platform"}, o \in loaded, p \in Persistent :
              MakePersistent(auth, o, p)
         \/ \E auth \in {"owner", "platform"}, p \in Persistent : RemovePersistent(auth, p)
  PROVE  ObjectsIInv'
<1>1. DOMAIN persistent = Persistent
  BY DEF ObjectsIInv, ObjectsTypes
<1>2. PICK p \in Persistent :
        /\ DOMAIN persistent' = Persistent
        /\ \A r \in Persistent \ {p} : persistent'[r] = persistent[r]
        /\ \A o \in persistent'[p] : InNv(p, o)
        /\ UNCHANGED <<hierarchies, clocks, loaded, kept, made, turns>>
  <2>1. ASSUME NEW auth \in {"owner", "platform"}, NEW o \in loaded, NEW p \in Persistent,
               MakePersistent(auth, o, p)
        PROVE  InNv(p, o) /\ persistent' = [persistent EXCEPT ![p] = {o}]
                 /\ UNCHANGED <<hierarchies, clocks, loaded, kept, made, turns>>
    BY <2>1 DEF ObjectsIInv, MakePersistent, InSlot, InNv, Proper, HierarchiesOf
  <2>2. ASSUME NEW auth \in {"owner", "platform"}, NEW p \in Persistent,
               RemovePersistent(auth, p)
        PROVE  persistent' = [persistent EXCEPT ![p] = {}]
                 /\ UNCHANGED <<hierarchies, clocks, loaded, kept, made, turns>>
    BY <2>2 DEF RemovePersistent
  <2>3. \A S : \A p \in Persistent :
          LET q == [persistent EXCEPT ![p] = S] IN
          DOMAIN q = Persistent /\ q[p] = S /\ \A r \in Persistent \ {p} : q[r] = persistent[r]
    BY <1>1
  <2> QED
    BY <2>1, <2>2, <2>3
<1>3. /\ made' \in Nat /\ turns' \in Nat
      /\ IsFiniteSet(loaded') /\ Cardinality(loaded') <= MaxLoaded
  BY <1>2 DEF ObjectsIInv, ObjectsTypes
<1>4. \A r \in Persistent : \A o \in persistent'[r] : o \in persistent[r] \/ InNv(r, o)
  BY <1>2
<1> QED
  BY <1>2, <1>3, <1>4, QuietStep

-----------------------------------------------------------------------------
(* Objects.  Changes of the hierarchies, and startups.                     *)

\* How the hierarchies and the counters move.
Turned ==
  /\ \A b \in Bases : /\ proof[b] <= proof'[b]
                      /\ proof'[b] = proof[b] => seed'[b] = seed[b]
  /\ \/ reset' = reset + 1
     \/ UNCHANGED reset /\ cleared' = cleared + 1
     \/ UNCHANGED <<reset, cleared, boots>>

\* What a caller kept of a hierarchy or of a time that is gone does not open any more.
LEMMA OutsideTurns ==
  ASSUME ObjectsIInv, ObjectsTypes', Turned, NEW k, Outside(k)
  PROVE  Outside(k)'
<1>1. CASE k.is = "context" /\ SoundContext(k)
  <2> DEFINE o == UnmarshalObject(k.body, k.state_clear)
             b == BaseOf(k.hierarchy)
  <2>1. /\ Sound(o) /\ o.hierarchy = k.hierarchy
        /\ k.proof \in Nat /\ k.proof <= proof[b] /\ o.since = k.proof
        /\ k.proof = proof[b] /\ o.key.tied => o.key.root = <<b, seed[b]>>
    BY <1>1 DEF SoundContext
  <2>2. b \in Bases
    BY <2>1, HierarchiesAre DEF Sound
  <2>3. proof[b] \in Nat /\ proof'[b] \in Nat
    BY <2>2 DEF ObjectsIInv, ObjectsTypes
  <2>4. proof[b] <= proof'[b] /\ (proof'[b] = proof[b] => seed'[b] = seed[b])
    BY <2>2 DEF Turned
  <2>5. k.proof <= proof'[b] /\ (k.proof = proof'[b] => k.proof = proof[b] /\ seed'[b] = seed[b])
    BY <2>1, <2>3, <2>4
  <2> DEFINE r == k.counters[1]
             n == k.counters[2]
  <2>6. k.state_clear =>
          /\ k.counters = <<r, n>>
          /\ r \in 0 .. reset /\ n \in Nat
          /\ r = reset => n <= cleared /\ (n = cleared => o.boot = boots)
    BY <1>1 DEF SoundContext
  <2>7. {reset, reset', cleared, cleared'} \subseteq Nat
    BY DEF ObjectsIInv, ObjectsTypes
  <2> HIDE DEF o, b, r, n
  <2>8. k.state_clear =>
          /\ r \in 0 .. reset'
          /\ r = reset' => n <= cleared' /\ (n = cleared' => o.boot = boots')
    <3>1. CASE UNCHANGED <<reset, cleared, boots>>
      BY <2>6, <3>1
    <3>2. CASE reset' = reset + 1
      BY <2>6, <2>7, <3>2
    <3>3. CASE UNCHANGED reset /\ cleared' = cleared + 1
      BY <2>6, <2>7, <3>3
    <3> QED
      BY <3>1, <3>2, <3>3 DEF Turned, clocks
  <2>9. SoundContext(k)'
    BY <2>1, <2>5, <2>6, <2>8 DEF SoundContext, o, b, r, n
  <2> QED
    BY <1>1, <2>9 DEF Outside
<1>2. CASE k.is = "private" /\ SoundPrivate(k)
  BY <1>2 DEF Outside
<1>3. CASE k.is = "duplicate" /\ SoundDuplicate(k)
  BY <1>3 DEF Outside
<1> QED
  BY <1>1, <1>2, <1>3 DEF Outside

LEMMA RereadIs ==
  ASSUME NEW o, Sound(o)
  PROVE  /\ Sound(Reread(o)) /\ Reread(o).key = o.key /\ Reread(o).hierarchy = o.hierarchy
         /\ Reread(o).since = o.since /\ Reread(o).state_clear = o.state_clear
<1> DEFINE q == <<o.hierarchy, Name(o)>>
           x == [o EXCEPT !.qualified_name = q]
<1>1. o = [key |-> o.key, public |-> o.public, sensitive |-> o.sensitive,
           hierarchy |-> o.hierarchy, qualified_name |-> o.qualified_name,
           tpm_generated |-> o.tpm_generated, state_clear |-> o.state_clear,
           since |-> o.since, boot |-> o.boot]
  BY DEF Sound
<1>2. IsSequence(q) /\ Len(q) = 2 /\ q[2] = Name(o)
  <2>1. q \in Seq({o.hierarchy, Name(o)})
    OBVIOUS
  <2> QED
    BY <2>1, SequenceIs
<1>3. Reread(o) = x
  BY DEF Reread
<1> HIDE DEF q
<1>4. /\ x = [key |-> o.key, public |-> o.public, sensitive |-> o.sensitive,
              hierarchy |-> o.hierarchy, qualified_name |-> q,
              tpm_generated |-> o.tpm_generated, state_clear |-> o.state_clear,
              since |-> o.since, boot |-> o.boot]
  BY <1>1
<1> HIDE DEF x
<1>5. /\ x.key = o.key /\ x.public = o.public /\ x.sensitive = o.sensitive
      /\ x.hierarchy = o.hierarchy /\ x.qualified_name = q
      /\ x.tpm_generated = o.tpm_generated /\ x.state_clear = o.state_clear
      /\ x.since = o.since /\ x.boot = o.boot
  BY <1>4
<1>6. Name(x) = Name(o)
  BY <1>5 DEF Name
<1>7. WellNamed(x)
  <2>1. Len(q) >= 2 /\ q[Len(q)] = Name(x) /\ ~(Len(q) > 2)
    BY <1>2, <1>6
  <2> QED
    BY <1>2, <1>5, <2>1 DEF WellNamed
<1>8. StateClear(x) => o.state_clear
  <2> SUFFICES ASSUME StateClear(x) PROVE StateClear(o)
    BY DEF Sound
  <2>1. Name(o).public.stClear
    <3>1. PICK i \in 2 .. Len(q) : q[i].public.stClear
      BY <1>5 DEF StateClear
    <3>2. i = 2
      BY <1>2, <3>1
    <3> QED
      BY <1>2, <3>1, <3>2
  <2>2. LET r == o.qualified_name IN Len(r) \in 2 .. Len(r) /\ r[Len(r)] = Name(o)
    BY DEF Sound, WellNamed, IsSequence
  <2> QED
    BY <2>1, <2>2 DEF StateClear
<1>9. Sound(x)
  BY <1>4, <1>5, <1>7, <1>8 DEF Sound
<1> QED
  BY <1>3, <1>5, <1>9

\* What stays is of a hierarchy that was not changed.
Unturned(o) ==
  LET b == BaseOf(o.hierarchy)
  IN  proof'[b] = proof[b] /\ seed'[b] = seed[b]

LEMMA TurnKeeps ==
  ASSUME ObjectsIInv, ObjectsTypes', Turned, UNCHANGED kept,
         \A o \in loaded' : o \in loaded /\ Unturned(o) /\ IsEnabled(o.hierarchy)' /\ boots' = boots,
         \A p \in Persistent : \A o \in persistent'[p] :
           \E x \in persistent[p] : o \in {x, Reread(x)} /\ Unturned(x)
  PROVE  ObjectsIInv'
<1>1. ASSUME NEW o \in loaded' PROVE InSlot(o)'
  BY DEF ObjectsIInv, InSlot, Current, Unturned
<1>2. ASSUME NEW p \in Persistent, NEW o \in persistent'[p] PROVE InNv(p, o)'
  <2>1. PICK x \in persistent[p] : o \in {x, Reread(x)} /\ Unturned(x)
    OBVIOUS
  <2>2. InNv(p, x)
    BY DEF ObjectsIInv
  <2>3. /\ Sound(o) /\ o.key = x.key /\ o.hierarchy = x.hierarchy
        /\ o.since = x.since /\ o.state_clear = x.state_clear
    BY <2>1, <2>2, RereadIs DEF InNv
  <2> QED
    BY <2>1, <2>2, <2>3 DEF InNv, Current, Unturned
<1>3. ASSUME NEW k \in kept' PROVE Outside(k)'
  BY OutsideTurns DEF ObjectsIInv
<1> QED
  BY <1>1, <1>2, <1>3 DEF ObjectsIInv

\* A slot whose object was flushed is free.
LEMMA FewerLoaded ==
  ASSUME ObjectsIInv, loaded' \subseteq loaded
  PROVE  IsFiniteSet(loaded') /\ Cardinality(loaded') <= MaxLoaded
<1>1. /\ IsFiniteSet(loaded) /\ IsFiniteSet(loaded') /\ Cardinality(loaded') <= Cardinality(loaded)
      /\ Cardinality(loaded) <= MaxLoaded
  BY FS_Subset DEF ObjectsIInv, ObjectsTypes
<1>2. Cardinality(loaded) \in Nat /\ Cardinality(loaded') \in Nat /\ MaxLoaded \in Nat
  BY <1>1, FS_CardinalityType, ObjectsAssumption DEF ObjectsAssumption
<1> QED
  BY <1>1, <1>2

LEMMA FlushedAre ==
  ASSUME ObjectsIInv, NEW b \in Bases, NEW o \in FlushHierarchy(loaded, b)
  PROVE  o \in loaded /\ BaseOf(o.hierarchy) # b /\ BaseOf(o.hierarchy) \in Bases
<1>1. o \in loaded /\ ~Belongs(o, b) /\ o.hierarchy \in Hierarchies
  BY DEF FlushHierarchy, ObjectsIInv, InSlot, Sound
<1> QED
  BY <1>1, HierarchiesAre

\* What is persistent is of the hierarchies of its half of the range, none of them limited.
LEMMA PersistentAre ==
  ASSUME ObjectsIInv, NEW p \in Persistent, NEW o \in persistent[p]
  PROVE  /\ BaseOf(o.hierarchy) = o.hierarchy
         /\ o.hierarchy \in HierarchiesOf(p) /\ o.hierarchy \in {"owner", "endorsement", "platform"}
<1>1. o.hierarchy \in HierarchiesOf(p)
  BY DEF ObjectsIInv, InNv
<1>2. o.hierarchy \in {"owner", "endorsement", "platform"}
  BY <1>1 DEF HierarchiesOf
<1> QED
  BY <1>1, <1>2, HierarchiesAre DEF Bases

LEMMA HierarchyControlKeeps ==
  ASSUME ObjectsIInv, NEW auth, NEW h \in DOMAIN enabled, NEW on \in BOOLEAN,
         HierarchyControl(auth, h, on)
  PROVE  ObjectsIInv'
<1>1. /\ enabled' = [enabled EXCEPT ![h] = on]
      /\ loaded' = IF on THEN loaded ELSE FlushHierarchy(loaded, h)
      /\ turns' = turns + 1
      /\ UNCHANGED <<seed, proof, reset, cleared, boots, persistent, kept, made>>
  BY DEF HierarchyControl, clocks
<1>2. ObjectsTypes /\ h \in Bases /\ h # "null"
  BY DEF ObjectsIInv, ObjectsTypes
<1>3. loaded' \subseteq loaded
  BY <1>1 DEF FlushHierarchy
<1>4. ObjectsTypes'
  BY <1>1, <1>2, <1>3, FewerLoaded DEF ObjectsTypes
<1>5. Turned
  BY <1>1, <1>2 DEF Turned, clocks, ObjectsTypes
<1>6. ASSUME NEW o \in loaded'
      PROVE  o \in loaded /\ Unturned(o) /\ IsEnabled(o.hierarchy)' /\ boots' = boots
  <2>1. InSlot(o) /\ o \in loaded
    BY <1>3 DEF ObjectsIInv
  <2>2. BaseOf(o.hierarchy) \in Bases
    BY <2>1, HierarchiesAre DEF InSlot, Sound
  <2>3. on \/ BaseOf(o.hierarchy) # h
    BY <1>1, <1>2, FlushedAre
  <2>4. IsEnabled(o.hierarchy)'
    BY <1>1, <1>2, <2>1, <2>2, <2>3 DEF IsEnabled, InSlot, ObjectsTypes
  <2> QED
    BY <1>1, <2>1, <2>4 DEF Unturned
<1>7. \A p \in Persistent : \A o \in persistent'[p] :
        \E x \in persistent[p] : o \in {x, Reread(x)} /\ Unturned(x)
  BY <1>1 DEF Unturned
<1> QED
  BY <1>1, <1>4, <1>5, <1>6, <1>7, TurnKeeps

LEMMA ChangePPSKeeps ==
  ASSUME ObjectsIInv, ChangePPS
  PROVE  ObjectsIInv'
<1>1. /\ seed' = [seed EXCEPT !["platform"] = @ + 1]
      /\ proof' = [proof EXCEPT !["platform"] = @ + 1]
      /\ loaded' = FlushHierarchy(loaded, "platform")
      /\ persistent' = [p \in Persistent |-> IF p \in PLATFORM_PERSISTENT THEN {} ELSE persistent[p]]
      /\ turns' = turns + 1
      /\ UNCHANGED <<enabled, reset, cleared, boots, kept, made>>
  BY DEF ChangePPS, clocks
<1>2. ObjectsTypes /\ "platform" \in Bases
  BY DEF ObjectsIInv, Bases
<1>3. loaded' \subseteq loaded
  BY <1>1 DEF FlushHierarchy
<1>4. ObjectsTypes'
  BY <1>1, <1>2, <1>3, FewerLoaded DEF ObjectsTypes
<1>5. \A b \in Bases \ {"platform"} : proof'[b] = proof[b] /\ seed'[b] = seed[b]
  BY <1>1, <1>2 DEF ObjectsTypes
<1>6. Turned
  <2>1. proof["platform"] \in Nat /\ proof'["platform"] = proof["platform"] + 1
    BY <1>1, <1>2 DEF ObjectsTypes
  <2> QED
    BY <1>1, <1>2, <1>5, <2>1 DEF Turned, clocks, ObjectsTypes
<1>7. ASSUME NEW o \in loaded'
      PROVE  o \in loaded /\ Unturned(o) /\ IsEnabled(o.hierarchy)' /\ boots' = boots
  <2>1. o \in loaded /\ BaseOf(o.hierarchy) # "platform" /\ BaseOf(o.hierarchy) \in Bases
    BY <1>1, <1>2, FlushedAre
  <2>2. InSlot(o)
    BY <2>1 DEF ObjectsIInv
  <2> QED
    BY <1>1, <1>5, <2>1, <2>2 DEF Unturned, IsEnabled, InSlot
<1>8. ASSUME NEW p \in Persistent, NEW o \in persistent'[p]
      PROVE  \E x \in persistent[p] : o \in {x, Reread(x)} /\ Unturned(x)
  <2>1. o \in persistent[p] /\ p \notin PLATFORM_PERSISTENT
    BY <1>1
  <2>2. BaseOf(o.hierarchy) \in {"owner", "endorsement"}
    BY <2>1, PersistentAre DEF HierarchiesOf
  <2>3. Unturned(o)
    BY <1>5, <2>2 DEF Unturned, Bases
  <2> QED
    BY <2>1, <2>3
<1> QED
  BY <1>1, <1>4, <1>6, <1>7, <1>8, TurnKeeps

LEMMA ChangeEPSKeeps ==
  ASSUME ObjectsIInv, ChangeEPS
  PROVE  ObjectsIInv'
<1>1. /\ seed' = [seed EXCEPT !["endorsement"] = @ + 1]
      /\ proof' = [proof EXCEPT !["endorsement"] = @ + 1]
      /\ enabled' = [enabled EXCEPT !["endorsement"] = TRUE]
      /\ loaded' = FlushHierarchy(loaded, "endorsement")
      /\ persistent' = [p \in Persistent |-> {o \in persistent[p] : o.hierarchy # "endorsement"}]
      /\ turns' = turns + 1
      /\ UNCHANGED <<reset, cleared, boots, kept, made>>
  BY DEF ChangeEPS, clocks
<1>2. ObjectsTypes /\ "endorsement" \in Bases
  BY DEF ObjectsIInv, Bases
<1>3. loaded' \subseteq loaded
  BY <1>1 DEF FlushHierarchy
<1>4. ObjectsTypes'
  BY <1>1, <1>2, <1>3, FewerLoaded DEF ObjectsTypes
<1>5. \A b \in Bases \ {"endorsement"} : proof'[b] = proof[b] /\ seed'[b] = seed[b]
  BY <1>1, <1>2 DEF ObjectsTypes
<1>6. Turned
  <2>1. proof["endorsement"] \in Nat /\ proof'["endorsement"] = proof["endorsement"] + 1
    BY <1>1, <1>2 DEF ObjectsTypes
  <2> QED
    BY <1>1, <1>2, <1>5, <2>1 DEF Turned, clocks, ObjectsTypes
<1>7. ASSUME NEW o \in loaded'
      PROVE  o \in loaded /\ Unturned(o) /\ IsEnabled(o.hierarchy)' /\ boots' = boots
  <2>1. o \in loaded /\ BaseOf(o.hierarchy) # "endorsement" /\ BaseOf(o.hierarchy) \in Bases
    BY <1>1, <1>2, FlushedAre
  <2>2. InSlot(o)
    BY <2>1 DEF ObjectsIInv
  <2>3. IsEnabled(o.hierarchy)'
    BY <1>1, <1>2, <2>1, <2>2 DEF IsEnabled, InSlot, ObjectsTypes
  <2> QED
    BY <1>1, <1>5, <2>1, <2>3 DEF Unturned
<1>8. ASSUME NEW p \in Persistent, NEW o \in persistent'[p]
      PROVE  \E x \in persistent[p] : o \in {x, Reread(x)} /\ Unturned(x)
  <2>1. o \in persistent[p] /\ o.hierarchy # "endorsement"
    BY <1>1
  <2>2. BaseOf(o.hierarchy) \in {"owner", "platform"}
    BY <2>1, PersistentAre
  <2>3. Unturned(o)
    BY <1>5, <2>2 DEF Unturned, Bases
  <2> QED
    BY <2>1, <2>3
<1> QED
  BY <1>1, <1>4, <1>6, <1>7, <1>8, TurnKeeps
LEMMA ClearKeeps ==
  ASSUME ObjectsIInv, Clear
  PROVE  ObjectsIInv'
<1>1. /\ seed' = [seed EXCEPT !["owner"] = @ + 1]
      /\ proof' = [proof EXCEPT !["owner"] = @ + 1, !["endorsement"] = @ + 1]
      /\ enabled' = [enabled EXCEPT !["owner"] = TRUE, !["endorsement"] = TRUE]
      /\ loaded' = FlushHierarchy(FlushHierarchy(loaded, "owner"), "endorsement")
      /\ persistent' = [p \in Persistent |-> IF p \in PLATFORM_PERSISTENT THEN persistent[p] ELSE {}]
      /\ turns' = turns + 1
      /\ UNCHANGED <<reset, cleared, boots, kept, made>>
  BY DEF Clear, OnClear, clocks
<1>2. ObjectsTypes /\ "owner" \in Bases /\ "endorsement" \in Bases
  BY DEF ObjectsIInv, Bases
<1>3. loaded' \subseteq FlushHierarchy(loaded, "owner")
        /\ loaded' \subseteq FlushHierarchy(loaded, "endorsement") /\ loaded' \subseteq loaded
  BY <1>1 DEF FlushHierarchy
<1>4. ObjectsTypes'
  <2>1. enabled' \in [Bases \ {"null"} -> BOOLEAN]
    BY <1>1, <1>2 DEF ObjectsTypes
  <2>2. seed' \in [Bases -> Nat] /\ proof' \in [Bases -> Nat]
    BY <1>1, <1>2 DEF ObjectsTypes
  <2>3. {reset', cleared', made', turns', boots'} \subseteq Nat
    BY <1>1, <1>2 DEF ObjectsTypes
  <2>4. IsFiniteSet(loaded') /\ Cardinality(loaded') <= MaxLoaded /\ DOMAIN persistent' = Persistent
    BY <1>1, <1>3, FewerLoaded
  <2> QED
    BY <2>1, <2>2, <2>3, <2>4 DEF ObjectsTypes
<1>5. \A b \in Bases \ {"owner", "endorsement"} : proof'[b] = proof[b] /\ seed'[b] = seed[b]
  BY <1>1, <1>2 DEF ObjectsTypes
<1>6. Turned
  <2>1. /\ proof["owner"] \in Nat /\ proof'["owner"] = proof["owner"] + 1
        /\ proof["endorsement"] \in Nat /\ proof'["endorsement"] = proof["endorsement"] + 1
    BY <1>1, <1>2 DEF ObjectsTypes
  <2>2. ASSUME NEW b \in Bases PROVE proof[b] <= proof'[b] /\ (proof'[b] = proof[b] => seed'[b] = seed[b])
    <3>1. proof[b] \in Nat
      BY <1>2 DEF ObjectsTypes
    <3>2. CASE b \in {"owner", "endorsement"}
      BY <2>1, <3>2
    <3>3. CASE b \notin {"owner", "endorsement"}
      BY <1>5, <3>1, <3>3
    <3> QED
      BY <3>2, <3>3
  <2> QED
    BY <1>1, <2>2 DEF Turned, clocks
<1>7. ASSUME NEW o \in loaded'
      PROVE  o \in loaded /\ Unturned(o) /\ IsEnabled(o.hierarchy)' /\ boots' = boots
  <2>1. o \in loaded /\ BaseOf(o.hierarchy) \in Bases \ {"owner", "endorsement"}
    BY <1>2, <1>3, FlushedAre
  <2>2. InSlot(o)
    BY <2>1 DEF ObjectsIInv
  <2>3. IsEnabled(o.hierarchy)'
    BY <1>1, <1>2, <2>1, <2>2 DEF IsEnabled, InSlot, ObjectsTypes
  <2> QED
    BY <1>1, <1>5, <2>1, <2>3 DEF Unturned
<1>8. ASSUME NEW p \in Persistent, NEW o \in persistent'[p]
      PROVE  \E x \in persistent[p] : o \in {x, Reread(x)} /\ Unturned(x)
  <2>1. o \in persistent[p] /\ p \in PLATFORM_PERSISTENT
    BY <1>1
  <2>2. BaseOf(o.hierarchy) = "platform"
    BY <2>1, PersistentAre DEF HierarchiesOf
  <2>3. Unturned(o)
    BY <1>5, <2>2 DEF Unturned, Bases
  <2> QED
    BY <2>1, <2>3
<1> QED
  BY <1>1, <1>4, <1>6, <1>7, <1>8, TurnKeeps

LEMMA StartupKeeps ==
  ASSUME ObjectsIInv, NEW kind \in {"reset", "restart", "resume"}, NEW reread \in BOOLEAN,
         Startup(kind, reread)
  PROVE  ObjectsIInv'
<1>1. /\ seed' = [seed EXCEPT !["null"] = IF kind = "reset" THEN @ + 1 ELSE @]
      /\ proof' = [proof EXCEPT !["null"] = IF kind = "reset" THEN @ + 1 ELSE @]
      /\ enabled' = IF kind = "resume" THEN [enabled EXCEPT !["platform"] = TRUE]
                                       ELSE [b \in DOMAIN enabled |-> TRUE]
      /\ loaded' = {}
      /\ persistent' = [p \in Persistent |->
                          {IF reread THEN Reread(o) ELSE o : o \in persistent[p]}]
      /\ reset' = IF kind = "reset" THEN reset + 1 ELSE reset
      /\ cleared' = CASE kind = "reset"   -> 0
                      [] kind = "restart" -> cleared + 1
                      [] kind = "resume"  -> cleared
      /\ boots' = IF kind = "resume" THEN boots ELSE boots + 1
      /\ turns' = turns + 1
      /\ UNCHANGED <<kept, made>>
  BY DEF Startup, HierarchiesStart
<1>2. ObjectsTypes /\ "null" \in Bases
  BY DEF ObjectsIInv, Bases
<1>3. \/ kind = "reset" /\ reset' = reset + 1 /\ cleared' = 0
      \/ kind = "restart" /\ UNCHANGED reset /\ cleared' = cleared + 1
      \/ kind = "resume" /\ UNCHANGED <<reset, cleared, boots>>
  BY <1>1
<1>4. ObjectsTypes'
  <2>1. enabled' \in [Bases \ {"null"} -> BOOLEAN]
    BY <1>1, <1>2 DEF ObjectsTypes
  <2>2. {reset', cleared', made', turns', boots'} \subseteq Nat
    BY <1>1, <1>2, <1>3 DEF ObjectsTypes
  <2>3. seed' \in [Bases -> Nat] /\ proof' \in [Bases -> Nat]
    BY <1>1, <1>2 DEF ObjectsTypes
  <2>4. IsFiniteSet(loaded') /\ Cardinality(loaded') <= MaxLoaded /\ DOMAIN persistent' = Persistent
    BY <1>1, FewerLoaded
  <2> QED
    BY <2>1, <2>2, <2>3, <2>4 DEF ObjectsTypes
<1>5. \A b \in Bases \ {"null"} : proof'[b] = proof[b] /\ seed'[b] = seed[b]
  BY <1>1, <1>2 DEF ObjectsTypes
<1>6. Turned
  <2>1. ASSUME NEW b \in Bases PROVE proof[b] <= proof'[b] /\ (proof'[b] = proof[b] => seed'[b] = seed[b])
    <3>1. proof[b] \in Nat
      BY <1>2 DEF ObjectsTypes
    <3>2. CASE b = "null" /\ kind = "reset"
      <4>1. proof'[b] = proof[b] + 1
        BY <1>1, <1>2, <3>2 DEF ObjectsTypes
      <4> QED
        BY <3>1, <4>1
    <3>3. CASE b = "null" /\ kind # "reset"
      <4>1. proof'[b] = proof[b] /\ seed'[b] = seed[b]
        BY <1>1, <1>2, <3>3 DEF ObjectsTypes
      <4> QED
        BY <3>1, <4>1
    <3>4. CASE b # "null"
      BY <1>5, <3>1, <3>4
    <3> QED
      BY <3>2, <3>3, <3>4
  <2> QED
    BY <1>3, <2>1 DEF Turned
<1>7. ASSUME NEW p \in Persistent, NEW o \in persistent'[p]
      PROVE  \E x \in persistent[p] : o \in {x, Reread(x)} /\ Unturned(x)
  <2>1. PICK x \in persistent[p] : o = IF reread THEN Reread(x) ELSE x
    BY <1>1
  <2>2. BaseOf(x.hierarchy) \in {"owner", "endorsement", "platform"}
    BY <2>1, PersistentAre
  <2>3. Unturned(x)
    BY <1>5, <2>2 DEF Unturned, Bases
  <2>4. o \in {x, Reread(x)}
    BY <2>1
  <2> QED
    BY <2>1, <2>3, <2>4
<1> QED
  BY <1>1, <1>4, <1>6, <1>7, TurnKeeps

LEMMA ObjectsStep == ObjectsIInv /\ [ObjectsNext]_objectsVars => ObjectsIInv'
<1> SUFFICES ASSUME ObjectsIInv, [ObjectsNext]_objectsVars PROVE ObjectsIInv'
  OBVIOUS
<1>1. CASE \E auth \in DOMAIN enabled, h \in DOMAIN enabled, on \in BOOLEAN :
             HierarchyControl(auth, h, on)
  BY <1>1, HierarchyControlKeeps
<1>2. CASE ChangePPS \/ ChangeEPS \/ Clear
  BY <1>2, ChangePPSKeeps, ChangeEPSKeeps, ClearKeeps
<1>3. CASE \E a \in Primaries : CreatePrimary(a[1], a[2])
  BY <1>3, CreatePrimaryKeeps
<1>4. CASE \E p \in Resident, t \in Children : Create(p, t) \/ CreateLoaded(p, t)
  BY <1>4, CreateKeeps
<1>5. CASE \E p \in Resident, b \in privates : Load(p, b)
  BY <1>5, LoadKeeps
<1>6. CASE \E a \in Externals : LoadExternal(a[1], a[2], a[3])
  BY <1>6, LoadExternalKeeps
<1>7. CASE \E o \in Resident, p \in Resident : ObjectChangeAuth(o, p)
  BY <1>7, ObjectChangeAuthKeeps
<1>8. CASE \E o \in loaded : FlushContext(o) \/ ContextSave(o)
  BY <1>8, FlushObjectKeeps, ContextSaveKeeps
<1>9. CASE \/ \E o \in Resident, to \in NewParents : Duplicate(o, to)
           \/ \E d \in duplicates, to \in NewParents : Rewrap(d, to)
           \/ \E p \in Resident, d \in duplicates : Import(p, d)
  BY <1>9, DuplicationKeeps
<1>10. CASE \E c \in contexts : ContextLoad(c)
  BY <1>10, ContextLoadKeeps
<1>11. CASE \/ \E auth \in {"owner", "platform"}, o \in loaded, p \in Persistent :
                 MakePersistent(auth, o, p)
            \/ \E auth \in {"owner", "platform"}, p \in Persistent : RemovePersistent(auth, p)
  BY <1>11, EvictControlKeeps
<1>12. CASE \E kind \in {"reset", "restart", "resume"}, reread \in BOOLEAN : Startup(kind, reread)
  BY <1>12, StartupKeeps
<1>13. CASE UNCHANGED objectsVars
  <2>1. UNCHANGED <<hierarchies, clocks, loaded, persistent, kept, made, turns>>
    BY <1>13 DEF objectsVars
  <2>2. /\ made' \in Nat /\ turns' \in Nat /\ DOMAIN persistent' = Persistent
        /\ IsFiniteSet(loaded') /\ Cardinality(loaded') <= MaxLoaded
    BY <2>1 DEF ObjectsIInv, ObjectsTypes
  <2> QED
    BY <2>1, <2>2, QuietStep
<1> QED
  BY <1>1, <1>2, <1>3, <1>4, <1>5, <1>6, <1>7, <1>8, <1>9, <1>10, <1>11, <1>12, <1>13
  DEF ObjectsNext

-----------------------------------------------------------------------------
(* Objects.  What holds.                                                   *)

\* What is in a slot, in a persistent handle and in a caller's keeping stays as the commands
\* of hierarchy.rs, object.rs, create_loaded.rs, context.rs and duplication.rs made it: a
\* context or a private area opens to an object of the hierarchy there is now, or not at all.
THEOREM ObjectsHolds == ObjectsSpec => []ObjectsIInv
BY ObjectsInitHolds, ObjectsStep, PTL DEF ObjectsSpec

\* TPM2_Clear, TPM2_ChangePPS and TPM2_ChangeEPS (hierarchy.rs) end what was under the proof
\* and the seed they replace, whatever was saved, duplicated or persistent.
THEOREM HierarchyEndsAll == ObjectsSpec => []NothingOutlivesItsHierarchy
<1>1. ObjectsIInv => NothingOutlivesItsHierarchy
  BY ResidentIs DEF NothingOutlivesItsHierarchy, Current
<1> QED
  BY <1>1, ObjectsHolds, PTL

\* An object with stClear in it or above it does not pass a TPM Reset or TPM Restart: the
\* integrity value of its context takes in the counters that the startup moves, and
\* evict_control refuses it.
THEOREM StateClearIsEnded == ObjectsSpec => []StateClearEnds
<1>1. ObjectsIInv => StateClearEnds
  BY DEF ObjectsIInv, StateClearEnds, InSlot, InNv, Sound
<1> QED
  BY <1>1, ObjectsHolds, PTL

\* hierarchy_control flushes what belongs to the hierarchy that it turns off, those of the
\* limited hierarchies under it too, and nothing enters a slot of one that is off.
THEOREM OffIsEmpty == ObjectsSpec => []OffMeansEmpty
<1>1. ObjectsIInv => OffMeansEmpty
  BY DEF ObjectsIInv, OffMeansEmpty, InSlot
<1> QED
  BY <1>1, ObjectsHolds, PTL
=============================================================================
