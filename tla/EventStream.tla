------------------------------ MODULE EventStream ------------------------------
(***************************************************************************)
(* MultiInputStream (threading.h): the queue through which the discoverer  *)
(* and the connections of the users send events to the event loop.         *)
(*                                                                         *)
(* A reader holds access_mutex from its first look at the queue until it   *)
(* has taken an event, except while it waits on the condition variable.    *)
(* A writer never takes it: it pushes under the queue's own lock, and      *)
(* notifies.                                                               *)
(*                                                                         *)
(* Only how many events are queued matters here: Many stands for Many or   *)
(* more.                                                                   *)
(***************************************************************************)
EXTENDS Integers

CONSTANTS Writers, Readers,
          Many,     \* bound on the events that are counted
          Nobody    \* access_mutex is free

ASSUME ManyAssumption == Many \in Nat \ {0}
ASSUME NobodyAssumption == Nobody \notin Readers

VARIABLES t_queue,       \* events queued
          access_mutex,  \* the reader that holds it
          writer, reader \* where each thread is

vars == <<t_queue, access_mutex, writer, reader>>

Init ==
  /\ t_queue = 0
  /\ access_mutex = Nobody
  /\ writer = [w \in Writers |-> "idle"]
  /\ reader = [r \in Readers |-> "idle"]

-------------------------------------------------------------------------------
(* write                                                                   *)

push(w) ==
  /\ writer[w] = "idle"
  /\ t_queue' = IF t_queue = Many THEN Many ELSE t_queue + 1
  /\ writer' = [writer EXCEPT ![w] = "notify"]
  /\ UNCHANGED <<access_mutex, reader>>

Waiting == {r \in Readers : reader[r] = "wait"}

notify_one_Forgotten(w) ==
  /\ writer[w] = "notify"
  /\ writer' = [writer EXCEPT ![w] = "idle"]
  /\ UNCHANGED <<t_queue, access_mutex, reader>>

\* One of the readers that wait, if there is one, is woken.
notify_one(w) ==
  /\ writer[w] = "notify"
  /\ \/ \E r \in Waiting : reader' = [reader EXCEPT ![r] = "lock"]
     \/ Waiting = {} /\ UNCHANGED reader
  /\ writer' = [writer EXCEPT ![w] = "idle"]
  /\ UNCHANGED <<t_queue, access_mutex>>

-------------------------------------------------------------------------------
(* read                                                                    *)

read(r) ==
  /\ reader[r] = "idle"
  /\ reader' = [reader EXCEPT ![r] = "lock"]
  /\ UNCHANGED <<t_queue, access_mutex, writer>>

\* access_mutex is taken, at first or after the wait, and the predicate of the
\* wait is evaluated.
testEmpty_NoMutex(r) ==
  /\ reader[r] = "lock"
  /\ reader' = [reader EXCEPT ![r] = IF t_queue > 0 THEN "take" ELSE "block"]
  /\ UNCHANGED <<t_queue, access_mutex, writer>>

testEmpty(r) ==
  /\ reader[r] = "lock"
  /\ access_mutex = Nobody
  /\ access_mutex' = r
  /\ reader' = [reader EXCEPT ![r] = IF t_queue > 0 THEN "take" ELSE "block"]
  /\ UNCHANGED <<t_queue, writer>>

\* The mutex is released and the thread waits, in one step.
block(r) ==
  /\ reader[r] = "block"
  /\ access_mutex' = Nobody
  /\ reader' = [reader EXCEPT ![r] = "wait"]
  /\ UNCHANGED <<t_queue, writer>>

spuriousWakeup(r) ==
  /\ reader[r] = "wait"
  /\ reader' = [reader EXCEPT ![r] = "lock"]
  /\ UNCHANGED <<t_queue, access_mutex, writer>>

take(r) ==
  /\ reader[r] = "take"
  /\ \/ t_queue' = t_queue - 1
     \/ t_queue = Many /\ UNCHANGED t_queue
  /\ access_mutex' = Nobody
  /\ reader' = [reader EXCEPT ![r] = "idle"]
  /\ UNCHANGED writer

-------------------------------------------------------------------------------

ReaderGoesOn(r) == read(r) \/ testEmpty(r) \/ block(r) \/ take(r)

Next ==
  \/ \E w \in Writers : push(w) \/ notify_one(w)
  \/ \E r \in Readers : ReaderGoesOn(r) \/ spuriousWakeup(r)

\* A thread in the middle of write or read goes on, and a reader calls read
\* again; nobody has to write, and no wait ends by itself.  A reader can be
\* overtaken at access_mutex by others any number of times (WF, not SF).
Spec ==
  /\ Init
  /\ [][Next]_vars
  /\ \A w \in Writers : WF_vars(notify_one(w))
  /\ \A r \in Readers : WF_vars(ReaderGoesOn(r))

-------------------------------------------------------------------------------

\* SAFETY.  The queue's lock is released between the test and front(), so only
\* access_mutex keeps an event there for the reader that saw it.
NeverTakesFromEmpty ==
  \A r \in Readers : reader[r] = "take" => access_mutex = r /\ t_queue \in 1 .. Many

\* LIVENESS.  A wake-up can be lost, but not for good: as long as events keep
\* coming in, events are read.
WritesAreRead ==
  []<><<\E w \in Writers : push(w)>>_vars => []<>(\E r \in Readers : reader[r] = "take")

\* LIVENESS.  "Blocks thread until there is something to read": no reader goes
\* on waiting while there is something.
BlocksOnlyWhileEmpty ==
  \A r \in Readers : reader[r] = "wait" /\ t_queue > 0 ~> reader[r] # "wait" \/ t_queue = 0
===============================================================================
