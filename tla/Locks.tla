------------------------------- MODULE Locks -------------------------------
(***************************************************************************)
(* The locks around the processes and object files that the main loop and  *)
(* the thread of the collector share.  A handler is the sequence of locks  *)
(* it takes and gives back, as guards are created and dropped, with the    *)
(* effects and reads that the properties are about; what handlers do under *)
(* their locks is the matter of Profiler and Session.                      *)
(*                                                                         *)
(* parking_lot's RwLock is fair: a reader waits while a writer waits.      *)
(***************************************************************************)
EXTENDS Integers, Sequences

CONSTANTS
    MAX_PROFILES     \* bound on the profiles sent to the collector

Thread == {"main", "collector_thread"}

Read(l) == [op |-> "read", lock |-> l]
Write(l) == [op |-> "write", lock |-> l]
Drop(l) == [op |-> "drop", lock |-> l]
\* Under a lock, or none: the effects of a process on procs ("process", "exited") and
\* on object_files ("files", "released"), the collector's look, and a profile sent.
Do(what) == [op |-> "do", lock |-> what]

RwScope(l, what) == <<Write(l), Do(what), Drop(l)>>

RecordProcessFirst == RwScope("procs", "process") \o RwScope("object_files", "files")
\* The process entry goes in after the object files of its mappings.
RecordFilesFirst == RwScope("object_files", "files") \o RwScope("procs", "process")

add_proc ==
    RecordFilesFirst \o <<Write("metadata_provider"), Drop("metadata_provider")>>

\* The guard on procs lives as long as the loop over the mappings.
add_unwind_info_for_process ==
    <<Read("procs"), Drop("procs"),
      Read("procs"),
      Read("object_files"), Drop("object_files"),
      Read("object_files"), Drop("object_files"),
      Drop("procs")>>

\* The object files are locked for each mapping, with the lock on procs held.
handle_process_exit ==
    <<Write("procs"), Do("exited"),
      Write("object_files"), Do("released"), Drop("object_files"),
      Write("object_files"), Drop("object_files"),
      Drop("procs")>>

handle_munmap ==
    <<Write("procs"), Write("object_files"), Drop("object_files"), Drop("procs")>>

maybe_evict_process == <<Read("procs"), Drop("procs")>> \o handle_process_exit

event_need_unwind_info ==
    <<Read("procs"), Drop("procs"), Read("object_files"), Drop("object_files")>>

bump_last_used == <<Write("procs"), Drop("procs"), Read("procs"), Drop("procs")>>

CollectFilesFirst ==
    <<Write("collector"), Read("object_files"), Read("procs"), Do("look"),
      Write("metadata_provider"), Drop("metadata_provider"),
      Drop("procs"), Drop("object_files"), Drop("collector")>>
\* collector.lock().unwrap().collect(profile, &procs.read(), &object_files.read())
collect ==
    <<Write("collector"), Read("procs"), Read("object_files"), Do("look"),
      Write("metadata_provider"), Drop("metadata_provider"),
      Drop("object_files"), Drop("procs"), Drop("collector")>>

\* A session ends: the profile is sent to the collector's thread last.
collect_profile == bump_last_used \o <<Do("send")>>

\* After run() has returned: the collector is locked for the rest of main().
finish == <<Write("collector")>>

event_new_proc ==
    LET known == <<Read("procs"), Drop("procs")>>
    IN  {known \o add_unwind_info_for_process,
         known \o add_proc \o add_unwind_info_for_process,
         known \o maybe_evict_process \o add_proc \o add_unwind_info_for_process,
         known \o add_unwind_info_for_process \o handle_process_exit \o maybe_evict_process}

Handlers == event_new_proc \cup {handle_process_exit, handle_munmap, event_need_unwind_info}

VARIABLES
    script,      \* what each thread has left to do
    held,        \* <<thread, lock, mode>>
    wanted,      \* what each thread waits for, or none
    done,        \* the effects of the last process so far
    seen,        \* the effects the collector saw
    profiles,    \* profiles in the channel
    sent,        \* profiles sent so far
    returned     \* run() has returned

vars == <<script, held, wanted, done, seen, profiles, sent, returned>>

NoWant == [op |-> "none", lock |-> "none"]

Init ==
    /\ script = [t \in Thread |-> <<>>]
    /\ held = {}
    /\ wanted = [t \in Thread |-> NoWant]
    /\ done = {} /\ seen = {}
    /\ profiles = 0 /\ sent = 0
    /\ returned = FALSE

-----------------------------------------------------------------------------
\* A lock is requested, and the thread waits for it.
request(t) ==
    /\ script[t] # <<>>
    /\ wanted[t] = NoWant
    /\ Head(script[t]).op \in {"read", "write"}
    /\ wanted' = [wanted EXCEPT ![t] = Head(script[t])]
    /\ UNCHANGED <<script, held, done, seen, profiles, sent, returned>>

Holders(l) == {h \in held : h[2] = l}
WriterWaits(l) == \E t \in Thread : wanted[t] = Write(l)

Granted(t) ==
    LET l == wanted[t].lock
    IN  \/ wanted[t].op = "write" /\ Holders(l) = {}
        \/ /\ wanted[t].op = "read"
           /\ \A h \in Holders(l) : h[3] = "read"
           /\ ~WriterWaits(l)

grant(t) ==
    /\ wanted[t] # NoWant
    /\ Granted(t)
    /\ held' = held \cup {<<t, wanted[t].lock, wanted[t].op>>}
    /\ wanted' = [wanted EXCEPT ![t] = NoWant]
    /\ script' = [script EXCEPT ![t] = Tail(@)]
    /\ UNCHANGED <<done, seen, profiles, sent, returned>>

drop(t) ==
    /\ script[t] # <<>> /\ Head(script[t]).op = "drop"
    /\ held' = {h \in held : ~(h[1] = t /\ h[2] = Head(script[t]).lock)}
    /\ script' = [script EXCEPT ![t] = Tail(@)]
    /\ UNCHANGED <<wanted, done, seen, profiles, sent, returned>>

\* Recording files begins a new process; only a recorded process can exit.
After(what) ==
    CASE what = "files" -> {"files"}
      [] what = "process" -> done \cup {"process"}
      [] what \in {"exited", "released"} /\ "process" \in done -> done \cup {what}
      [] OTHER -> done

work(t) ==
    /\ script[t] # <<>> /\ Head(script[t]).op = "do"
    /\ LET what == Head(script[t]).lock
       IN  /\ seen' = IF what = "look" THEN done ELSE seen
           /\ done' = After(what)
           /\ profiles' = IF what = "send" THEN profiles + 1 ELSE profiles
    /\ script' = [script EXCEPT ![t] = Tail(@)]
    /\ UNCHANGED <<held, wanted, sent, returned>>

-----------------------------------------------------------------------------
Idle(t) == script[t] = <<>>

\* The main loop takes an event.
handle_event ==
    /\ ~returned /\ Idle("main")
    /\ \E h \in Handlers : script' = [script EXCEPT !["main"] = h]
    /\ UNCHANGED <<held, wanted, done, seen, profiles, sent, returned>>

\* The session tick.
session_tick ==
    /\ ~returned /\ Idle("main") /\ sent < MAX_PROFILES
    /\ script' = [script EXCEPT !["main"] = collect_profile]
    /\ sent' = sent + 1
    /\ UNCHANGED <<held, wanted, done, seen, profiles, returned>>

\* The stop signal, or the end of the run: the last profile, and back to main().
stop ==
    /\ ~returned /\ Idle("main") /\ sent < MAX_PROFILES
    /\ returned' = TRUE /\ sent' = sent + 1
    /\ script' = [script EXCEPT !["main"] = collect_profile \o finish]
    /\ UNCHANGED <<held, wanted, done, seen, profiles>>

receive_profile ==
    /\ Idle("collector_thread") /\ profiles > 0
    /\ profiles' = profiles - 1
    /\ script' = [script EXCEPT !["collector_thread"] = collect]
    /\ UNCHANGED <<held, wanted, done, seen, sent, returned>>

Locking(t) == request(t) \/ grant(t) \/ drop(t) \/ work(t)

Next ==
    \/ \E t \in Thread : Locking(t)
    \/ handle_event \/ session_tick \/ stop \/ receive_profile

Spec == Init /\ [][Next]_vars

\* Threads run, and parking_lot is eventually fair: a thread that finds the lock
\* free again and again gets it.
FairSpec ==
    /\ Spec
    /\ \A t \in Thread : WF_vars(Locking(t)) /\ SF_vars(grant(t))

-----------------------------------------------------------------------------
\* No handler waits forever for a lock: the two threads agree on the order procs,
\* object_files, metadata_provider, and the collector's lock is only taken by main
\* when it holds no other (profiler.rs:772-775, 852-864, main.rs:232).
HandlersFinish ==
    /\ script["main"] # <<>> ~> script["main"] = <<>>
    /\ returned = FALSE /\ script["collector_thread"] # <<>>
         ~> returned \/ script["collector_thread"] = <<>>

\* A process that the collector sees has its object files recorded, and references
\* them exactly if it runs: raw_to_processed looks one up for each mapping
\* (sample.rs:145), add_proc records them first (profiler.rs:1862, 1998), and an exit
\* changes both with the two locks held (850-886).
ProcessSeenWhole ==
    "process" \in seen =>
        "files" \in seen /\ ("exited" \in seen <=> "released" \in seen)
=============================================================================
