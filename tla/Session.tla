------------------------------- MODULE Session -------------------------------
(***************************************************************************)
(* The way of a sample from the BPF program to the report, and the start   *)
(* and the end of the program.  It does not start while the killswitch, a  *)
(* file, is there, and a thread polls for it.  Poll threads move what the  *)
(* BPF programs put in their buffers to channels; the main thread selects  *)
(* over the channels, the ticks and the stop signal, and turns the samples *)
(* of a session into a profile; the collector thread takes the profiles.   *)
(* On stop, run() returns, which detaches the BPF programs and then drops  *)
(* the receivers, and the program asks the collector for everything and    *)
(* writes it.                                                              *)
(*                                                                         *)
(* Samples with equal hash are equal here, so a buffer, a channel and a    *)
(* profile are counts: how often each stack is in it.  Events of the       *)
(* tracers and of the unwinder differ only in their handlers, which module *)
(* Profiler has.                                                           *)
(***************************************************************************)
EXTENDS Integers, Sequences, FiniteSets, FiniteSetsExt

CONSTANTS
    Stack,           \* the stacks samples may have
    EmptyStack,      \* the one with neither user nor kernel frames
    Unmapped,        \* those no frame of which is in a known mapping
    MAX_SAMPLES,     \* bound on the samples taken
    MAX_SESSIONS,    \* bound on the session ticks
    MAX_EVENTS,      \* bound on the tracer and unwinder events
    MAX_TOUCHES      \* bound on the changes of the killswitch file

ASSUME SessionAssumption ==
    /\ EmptyStack \in Stack \ Unmapped
    /\ Unmapped \subseteq Stack
    /\ MAX_SAMPLES \in Nat /\ MAX_SESSIONS \in Nat /\ MAX_EVENTS \in Nat
    /\ MAX_TOUCHES \in Nat

VARIABLES
    stacks,            \* samples in the perf or ring buffer
    events,            \* events in their buffers
    raw_sample_chan,   \* samples in the channel to the main thread
    raw_samples,       \* samples of the session
    profile_chan,      \* profiles on their way to the collector thread
    collecting,        \* the profile the collector thread has received, or none
    profiles,          \* what the collector has, summed over its profiles
    stop_chan,         \* stop signals in the channel of size one
    main,              \* how far the main thread is
    report,            \* what is written, or none
    sampled,           \* history: the samples taken
    dropped,           \* history: the samples lost to the stop or not understood
    sessions,          \* session ticks so far
    emitted,           \* events so far
    killswitch,        \* the file: "absent", "present" or "unreadable"
    poll,              \* the killswitch thread: "polling", "sending" or "ended"
    touches            \* changes of the file so far

vars == <<stacks, events, raw_sample_chan, raw_samples, profile_chan, collecting,
          profiles, stop_chan, main, report, sampled, dropped, sessions, emitted,
          killswitch, poll, touches>>
killVars == <<killswitch, poll, touches>>

None == <<>>
Zero == [s \in Stack |-> 0]
One(s) == [Zero EXCEPT ![s] = 1]
Plus(a, b) == [s \in Stack |-> a[s] + b[s]]
Minus(a, b) == [s \in Stack |-> a[s] - b[s]]
Total(a) == FoldSet(LAMBDA s, n : a[s] + n, 0, Stack)

Init ==
    /\ stacks = Zero /\ events = 0
    /\ raw_sample_chan = Zero /\ raw_samples = Zero
    /\ profile_chan = <<>> /\ collecting = None /\ profiles = Zero
    /\ stop_chan = 0 /\ main = "starting" /\ report = None
    /\ sampled = Zero /\ dropped = Zero /\ sessions = 0 /\ emitted = 0
    /\ killswitch \in {"absent", "present", "unreadable"} /\ poll = "polling" /\ touches = 0

Attached == main \in {"select", "returning"}
HasReceivers == main \in {"select", "returning", "detached"}
\* "unwritten": the report could not be written, which is only logged.
Exited == main \in {"refused", "done", "unwritten", "panicked"}
pipeline == <<raw_samples, profile_chan, collecting, profiles>>

-----------------------------------------------------------------------------
\* The BPF programs, until they are detached.
on_event(s) ==
    /\ Attached /\ Total(sampled) < MAX_SAMPLES
    /\ stacks' = Plus(stacks, One(s))
    /\ sampled' = Plus(sampled, One(s))
    /\ UNCHANGED <<events, raw_sample_chan, stop_chan, main, report, dropped, sessions, emitted>>
    /\ UNCHANGED pipeline

send_event ==
    /\ Attached /\ emitted < MAX_EVENTS
    /\ events' = events + 1 /\ emitted' = emitted + 1
    /\ UNCHANGED <<stacks, raw_sample_chan, stop_chan, main, report, sampled, dropped, sessions>>
    /\ UNCHANGED pipeline

\* The poll threads, which run until the process exits.  A sample that cannot be
\* parsed or sent is logged; an event that cannot be sent is a panic, and the panic
\* hook exits.
handle_sample(s, parsed) ==
    /\ ~Exited /\ stacks[s] > 0
    /\ stacks' = Minus(stacks, One(s))
    /\ LET sent == parsed /\ HasReceivers
       IN  /\ raw_sample_chan' = IF sent THEN Plus(raw_sample_chan, One(s)) ELSE raw_sample_chan
           /\ dropped' = IF sent THEN dropped ELSE Plus(dropped, One(s))
    /\ UNCHANGED <<events, stop_chan, main, report, sampled, sessions, emitted>>
    /\ UNCHANGED pipeline

handle_event ==
    /\ ~Exited /\ events > 0
    /\ events' = events - 1
    /\ main' = IF HasReceivers THEN main ELSE "panicked"
    /\ UNCHANGED <<stacks, raw_sample_chan, stop_chan, report, sampled, dropped, sessions, emitted>>
    /\ UNCHANGED pipeline

-----------------------------------------------------------------------------
receive_raw_sample(s) ==
    /\ main = "select" /\ raw_sample_chan[s] > 0
    /\ raw_sample_chan' = Minus(raw_sample_chan, One(s))
    /\ raw_samples' = Plus(raw_samples, One(s))
    /\ UNCHANGED <<stacks, events, profile_chan, collecting, profiles, stop_chan, main, report,
                   sampled, dropped, sessions, emitted>>

\* Aggregator::aggregate skips empty samples and counts equal ones.
aggregate(samples) == [samples EXCEPT ![EmptyStack] = 0]

KeepSamples(samples) == samples
\* What is left of the session's samples once they are collected.
ClearedSamples(samples) == Zero

collect_and_send_profile ==
    /\ profile_chan' = Append(profile_chan, aggregate(raw_samples))
    /\ raw_samples' = ClearedSamples(raw_samples)
    /\ UNCHANGED <<stacks, events, raw_sample_chan, collecting, profiles, report,
                   sampled, dropped, emitted>>

session_tick ==
    /\ main = "select" /\ sessions < MAX_SESSIONS
    /\ sessions' = sessions + 1
    /\ collect_and_send_profile
    /\ UNCHANGED <<stop_chan, main>>

total_duration_tick ==
    /\ main = "select"
    /\ main' = "returning"
    /\ collect_and_send_profile
    /\ UNCHANGED <<stop_chan, sessions>>

ReceiveStopContinues ==
    /\ main = "select" /\ stop_chan > 0
    /\ stop_chan' = stop_chan - 1
    /\ collect_and_send_profile
    /\ UNCHANGED <<main, sessions>>

receive_stop ==
    /\ main = "select" /\ stop_chan > 0
    /\ stop_chan' = stop_chan - 1
    /\ main' = "returning"
    /\ collect_and_send_profile
    /\ UNCHANGED sessions

\* The stop channel is bounded(1): a sender waits while it is full.
StopChanHasRoom == stop_chan < 1

\* Ctrl+C.  Once the receiver is gone a send fails, which is ignored.
ctrl_c ==
    /\ HasReceivers /\ StopChanHasRoom
    /\ stop_chan' = stop_chan + 1
    /\ UNCHANGED <<stacks, events, raw_sample_chan, main, report, sampled, dropped, sessions, emitted>>
    /\ UNCHANGED pipeline

-----------------------------------------------------------------------------
\* The killswitch.  Somebody creates the file, removes it or makes it unreadable.
touch_killswitch ==
    /\ ~Exited /\ touches < MAX_TOUCHES
    /\ touches' = touches + 1
    /\ killswitch' \in {"absent", "present", "unreadable"} \ {killswitch}
    /\ UNCHANGED <<stacks, events, raw_sample_chan, stop_chan, main, report, sampled, dropped,
                   sessions, emitted, poll>>
    /\ UNCHANGED pipeline

\* What becomes of a thread that asks whether the file is there: the unwrap() panics
\* if it cannot be examined.
enabled(yes, no) ==
    CASE killswitch = "present" -> yes
      [] killswitch = "absent" -> no
      [] killswitch = "unreadable" -> "panicked"

start ==
    /\ main = "starting"
    /\ main' = enabled("refused", "select")
    /\ UNCHANGED <<stacks, events, raw_sample_chan, stop_chan, report, sampled, dropped,
                   sessions, emitted>>
    /\ UNCHANGED pipeline /\ UNCHANGED killVars

PollOnce ==
    /\ main # "starting" /\ ~Exited /\ poll = "polling"
    /\ poll' = IF killswitch = "present" THEN "sending" ELSE "ended"
    /\ main' = enabled(main, main)
    /\ UNCHANGED <<stacks, events, raw_sample_chan, stop_chan, report, sampled, dropped,
                   sessions, emitted, killswitch, touches>>
    /\ UNCHANGED pipeline

\* The thread finds the killswitch enabled; a tick that finds no file changes nothing.
killswitch_tick ==
    /\ main # "starting" /\ ~Exited /\ poll = "polling"
    /\ killswitch # "absent"
    /\ poll' = IF killswitch = "present" THEN "sending" ELSE poll
    /\ main' = enabled(main, main)
    /\ UNCHANGED <<stacks, events, raw_sample_chan, stop_chan, report, sampled, dropped,
                   sessions, emitted, killswitch, touches>>
    /\ UNCHANGED pipeline

\* It waits for room in the channel, sends and ends.
killswitch_send ==
    /\ ~Exited /\ poll = "sending" /\ (HasReceivers => StopChanHasRoom)
    /\ stop_chan' = IF HasReceivers THEN stop_chan + 1 ELSE stop_chan
    /\ poll' = "ended"
    /\ UNCHANGED <<stacks, events, raw_sample_chan, main, report, sampled, dropped, sessions,
                   emitted, killswitch, touches>>
    /\ UNCHANGED pipeline

-----------------------------------------------------------------------------
\* The collector thread: it takes a profile, and collects it once it has the
\* collector's lock.  Samples none of whose frames can be placed are skipped.
receive_profile ==
    /\ ~Exited /\ collecting = None /\ profile_chan # <<>>
    /\ collecting' = <<Head(profile_chan)>>
    /\ profile_chan' = Tail(profile_chan)
    /\ UNCHANGED <<stacks, events, raw_sample_chan, raw_samples, profiles, stop_chan, main,
                   report, sampled, dropped, sessions, emitted>>

KeepUnmapped(profile) == profile
raw_to_processed(profile) == [s \in Stack |-> IF s \in Unmapped THEN 0 ELSE profile[s]]

\* Whether the collector's lock is free: the main thread keeps it from finish on.
CollectorUnlocked == main \in {"select", "returning", "detached", "dropped"}

collect ==
    /\ ~Exited /\ collecting # None /\ CollectorUnlocked
    /\ profiles' = Plus(profiles, raw_to_processed(collecting[1]))
    /\ collecting' = None
    /\ UNCHANGED <<stacks, events, raw_sample_chan, raw_samples, profile_chan, stop_chan, main,
                   report, sampled, dropped, sessions, emitted>>

-----------------------------------------------------------------------------
\* The end of run(): dropping the profiler detaches the BPF programs first
\* and then drops the receivers with what is in the channels.
detach ==
    /\ main = "returning"
    /\ main' = "detached"
    /\ UNCHANGED <<stacks, events, raw_sample_chan, stop_chan, report, sampled, dropped, sessions, emitted>>
    /\ UNCHANGED pipeline

drop_channels ==
    /\ main = "detached"
    /\ main' = "dropped"
    /\ dropped' = Plus(dropped, raw_sample_chan)
    /\ raw_sample_chan' = Zero
    /\ stop_chan' = 0
    /\ UNCHANGED <<stacks, events, report, sampled, sessions, emitted>>
    /\ UNCHANGED pipeline

\* main(): take the collector's lock and finish, then write the report.
finish ==
    /\ main = "dropped"
    /\ main' = "finishing"
    /\ UNCHANGED <<stacks, events, raw_sample_chan, stop_chan, report, sampled, dropped, sessions, emitted>>
    /\ UNCHANGED pipeline

\* The report of a local run, in one of the formats, is created and written.
write_report ==
    /\ main = "finishing"
    /\ report' = <<profiles>>
    /\ main' = "done"
    /\ UNCHANGED <<stacks, events, raw_sample_chan, stop_chan, sampled, dropped, sessions, emitted>>
    /\ UNCHANGED pipeline

\* Its file cannot be created, which is unwrapped, or cannot be written, which is logged.
report_fails ==
    /\ main = "finishing"
    /\ main' \in {"panicked", "unwritten"}
    /\ UNCHANGED <<stacks, events, raw_sample_chan, stop_chan, report, sampled, dropped, sessions, emitted>>
    /\ UNCHANGED pipeline

Bpf == (\E s \in Stack : on_event(s)) \/ send_event
PollThreads == (\E s \in Stack, parsed \in BOOLEAN : handle_sample(s, parsed)) \/ handle_event
Select == (\E s \in Stack : receive_raw_sample(s)) \/ session_tick \/ total_duration_tick \/ receive_stop
Shutdown == detach \/ drop_channels \/ finish \/ write_report \/ report_fails
CollectorThread == receive_profile \/ collect

Killswitch == start \/ killswitch_tick \/ killswitch_send
Apart(A) == A /\ UNCHANGED killVars

Next ==
    \/ Killswitch \/ touch_killswitch
    \/ Apart(Bpf \/ PollThreads \/ Select \/ ctrl_c \/ CollectorThread \/ Shutdown)

Spec == Init /\ [][Next]_vars

\* The main thread and the killswitch's run; select! picks at random among the
\* channels that are ready, so a stop signal that stays ready is received.  Neither
\* the poll threads nor the collector's are assumed to make progress.
FairSpec ==
    /\ Spec
    /\ WF_vars(start \/ Apart(Shutdown)) /\ WF_vars(Apart(receive_stop))
    /\ WF_vars(killswitch_tick \/ killswitch_send)

-----------------------------------------------------------------------------
\* The samples of a stack in the profiles that were sent and not received, one by one,
\* and with them those in the profile being collected.
SentSamples(s) == UNION {{i} \X (1..profile_chan[i][s]) : i \in DOMAIN profile_chan}
InFlight(s) == Cardinality(SentSamples(s)) + (IF collecting = None THEN 0 ELSE collecting[1][s])
\* What a sample of the stack counts for.
Reportable == Stack \ (Unmapped \cup {EmptyStack})

\* At every moment each sample with a usable stack is in exactly one place: the
\* buffer, the channel, the session, a profile on its way, the collector, or
\* lost to the stop or to the parser.  Aggregation, the session ticks and the
\* collector neither lose nor repeat one (profiler.rs:1072-1081, aggregator.rs,
\* collector.rs).
SamplesConserved ==
    \A s \in Reportable :
        sampled[s] = stacks[s] + raw_sample_chan[s] + raw_samples[s] + InFlight(s)
                     + profiles[s] + dropped[s]

\* The program is a recording of its samples, whatever becomes of a sample on its
\* way: the collector only gains samples that were taken, none twice and none of a
\* stack without frames or without a known mapping, and what is written is what the
\* collector has (collector.rs:165-190, profile/convert.rs, main.rs:232-243).
Record == INSTANCE Recording WITH taken <- sampled, collected <- profiles
IsRecording == Record!Spec

\* A stop signal, whatever the poll threads and the collector are doing, ends
\* with the profile written ("Otherwise let's symbolize the profile and write it
\* to disk", main.rs:243), unless the disk refuses it, which is only logged
\* (main.rs:269-271, 296-298), or the program panics: the file cannot be created
\* (unwrap(), main.rs:261, 287), an event reaches a poll thread after the receivers
\* are gone (expect(), profiler.rs:752, 2045), or the killswitch cannot be examined
\* (killswitch.rs:23).  In no case does the program wait for what has ended.
StopIsReported == stop_chan = 1 ~> report # None \/ main \in {"unwritten", "panicked"}

\* A killswitch that is not removed again stops the program, or keeps it from
\* starting, also when Ctrl+C has filled the channel of stop signals (main.rs:142-150,
\* 213-222; without --unsafe-start).
KillswitchStops == killswitch = "present" ~> killswitch # "present" \/ Exited
=============================================================================
