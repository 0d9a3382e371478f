--------------------------------- MODULE Sync ---------------------------------
(****************************************************************************)
(* What the kernel's mutexes and semaphores promise to their users, without *)
(* a scheduler: tasks that do not wait act in any order; a task that waits  *)
(* does nothing until it is let through.                                    *)
(****************************************************************************)
EXTENDS Naturals

CONSTANTS Task, Mutex, Sem, NoTask, SemInit

VARIABLES holder,   \* the task inside each mutex, or NoTask
          depth,    \* how many times it has entered
          tokens,   \* what each semaphore still lets through
          waiting   \* the tasks that wait for each mutex and semaphore

svars == <<holder, depth, tokens, waiting>>

Free(t) == \A q \in Mutex \cup Sem : t \notin waiting[q]

SyncInit ==
  /\ holder  = [m \in Mutex |-> NoTask]
  /\ depth   = [m \in Mutex |-> 0]
  /\ tokens  = [s \in Sem |-> SemInit[s]]
  /\ waiting = [q \in Mutex \cup Sem |-> {}]

\* A free task enters a mutex nobody is in, or the one it is in already.
Enter(t, m) ==
  /\ Free(t)
  /\ holder[m] \in {NoTask, t}
  /\ holder' = [holder EXCEPT ![m] = t]
  /\ depth' = [depth EXCEPT ![m] = @ + 1]
  /\ UNCHANGED <<tokens, waiting>>

AwaitMutex(t, m) ==
  /\ Free(t)
  /\ holder[m] \notin {NoTask, t}
  /\ waiting' = [waiting EXCEPT ![m] = @ \cup {t}]
  /\ UNCHANGED <<holder, depth, tokens>>

\* The holder leaves.  A mutex is not left empty while a task waits for it.
Leave(t, m) ==
  /\ Free(t)
  /\ holder[m] = t
  /\ \/ /\ depth[m] > 1
        /\ depth' = [depth EXCEPT ![m] = @ - 1]
        /\ UNCHANGED <<holder, waiting>>
     \/ /\ depth[m] = 1
        /\ waiting[m] = {}
        /\ holder' = [holder EXCEPT ![m] = NoTask]
        /\ depth' = [depth EXCEPT ![m] = 0]
        /\ UNCHANGED waiting
     \/ /\ depth[m] = 1
        /\ \E u \in waiting[m] :
             /\ holder' = [holder EXCEPT ![m] = u]
             /\ waiting' = [waiting EXCEPT ![m] = @ \ {u}]
        /\ UNCHANGED depth
  /\ UNCHANGED tokens

Take(t, s) ==
  /\ Free(t)
  /\ tokens[s] > 0
  /\ tokens' = [tokens EXCEPT ![s] = @ - 1]
  /\ UNCHANGED <<holder, depth, waiting>>

AwaitToken(t, s) ==
  /\ Free(t)
  /\ tokens[s] = 0
  /\ waiting' = [waiting EXCEPT ![s] = @ \cup {t}]
  /\ UNCHANGED <<holder, depth, tokens>>

\* A token goes to one of the tasks that wait, or is kept if there is none.
Post(s) ==
  /\ \/ /\ waiting[s] = {}
        /\ tokens' = [tokens EXCEPT ![s] = @ + 1]
        /\ UNCHANGED waiting
     \/ /\ \E u \in waiting[s] : waiting' = [waiting EXCEPT ![s] = @ \ {u}]
        /\ UNCHANGED tokens
  /\ UNCHANGED <<holder, depth>>

SyncNext ==
  \/ \E t \in Task :
       \/ \E m \in Mutex : Enter(t, m) \/ AwaitMutex(t, m) \/ Leave(t, m)
       \/ \E s \in Sem : Take(t, s) \/ AwaitToken(t, s)
  \/ \E s \in Sem : Post(s)

SyncSpec == SyncInit /\ [][SyncNext]_svars
=============================================================================
