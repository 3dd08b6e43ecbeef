------------------------------ MODULE OplMusic ------------------------------
(* The music of i_oplmusic.c, played by callbacks of the SDL driver          *)
(* opl/opl_sdl.c, for one game whose menus and levels change, pause and stop *)
(* it (doom/s_sound.c).  Two threads take part: SDL's audio thread fills     *)
(* buffers and calls the callbacks, the game's thread does the rest.         *)
(*                                                                           *)
(* A song is a sequence of tracks, a track a sequence of events; an event    *)
(* comes .delta ticks after the one before.  What notes and programs do to   *)
(* the voices is left out.  The unit of time is the us; the audio thread    *)
(* counts samples, and converts them.                                        *)
EXTENDS OplQueue, FiniteSets

CONSTANTS
    Songs,          \* the songs that may be played
    TimeDivision,   \* ticks_per_beat of each song
    DefaultTempo,   \* us_per_beat of a song that starts
    Fastest,        \* us_per_beat of each song where it is fastest, or less
    RestartDelay,   \* the pause before a song is repeated (5 ms)
    OPL_SECOND,     \* us in a second
    mixing_freq,    \* samples in a second
    MaxBuffer,      \* bound: samples in the buffer that is filled
    WildWaits,      \* bound: times that are read of freed or unset memory
    MaxPause,       \* bound: us spent in pauses
    MaxPlays,       \* bound: songs played
    None

\* Events of a track (a tempo is not 0: MetaSetTempo divides by it), and entries of
\* the queue.
Event == [delta : Nat, type : {"NOTE", "END_OF_TRACK"}] \cup
         [delta : Nat, type : {"SET_TEMPO"}, tempo : Nat \ {0}]
EntryType == [time : Int, callback : {"Track", "RestartSong"}, play : Nat, track : Nat]

ASSUME MusicAssumption ==
    /\ TimeDivision \in [Songs -> Nat \ {0}] /\ DefaultTempo \in Nat \ {0}
    /\ OPL_SECOND \in Nat \ {0} /\ mixing_freq \in Nat \ {0} /\ RestartDelay \in Nat \ {0}
    /\ WildWaits \subseteq Nat
    /\ MaxBuffer \in Nat \ {0} /\ MaxPause \in Nat /\ MaxPlays \in Nat
    /\ None \notin Songs \cup Nat \cup EntryType

\* A file has tracks, and a track one END_OF_TRACK, its last event.
ASSUME SongAssumption ==
    \A s \in Songs : s \in Seq(Seq(Event)) /\ s # <<>> /\ \A t \in DOMAIN s :
        s[t] # <<>> /\ \A k \in DOMAIN s[t] : s[t][k].type = "END_OF_TRACK" <=> k = Len(s[t])

ASSUME FastestAssumption ==
    \A s \in Songs : /\ Fastest[s] \in Nat \ {0} /\ Fastest[s] <= DefaultTempo
                     /\ \A t \in DOMAIN s : \A k \in DOMAIN s[t] :
                          s[t][k].type = "SET_TEMPO" => Fastest[s] <= s[t][k].tempo

VARIABLES
    queue,          \* callback_queue
    pause_offset,
    opl_sdl_paused,
    step,           \* where the audio thread is: "mix", "fill", "call", "next"
    nsamples,       \* what it fills
    held,           \* the callback it popped and is about to call
    song,           \* the file of tracks, None when there are none
    iter,           \* the events each started track has read
    running_tracks,
    song_looping,
    us_per_beat,
    start,          \* the track I_OPL_PlaySong is to start, 0 outside of it
    us,             \* the time of its first event, once ScheduleTrack has read it
    mus_paused,
    plays,          \* songs played; it also names tracks, an array per song
    tempos,         \* history: changes of tempo since the song last began
    races           \* history: which races of the two threads have happened

driverVars == <<queue, pause_offset, opl_sdl_paused>>
audioVars == <<step, nsamples, held>>
songVars == <<song, iter, running_tracks, song_looping, us_per_beat>>
mainVars == <<start, us, mus_paused, plays>>
vars == <<driverVars, audioVars, songVars, mainVars, tempos, races>>

Entry(time, callback, play, track) ==
    [time |-> time, callback |-> callback, play |-> play, track |-> track]
RestartIn(time) == Entry(time, "RestartSong", 0, 0)

Init ==
    /\ queue = <<>> /\ pause_offset = 0 /\ opl_sdl_paused = FALSE
    /\ step = "mix" /\ nsamples = 0 /\ held = None
    /\ song = None /\ iter = <<>> /\ running_tracks = 0
    /\ song_looping = FALSE /\ us_per_beat = DefaultTempo
    /\ start = 0 /\ us = None /\ mus_paused = FALSE /\ plays = 0
    /\ tempos = 0 /\ races = {}

----------------------------------------------------------------------------
(* The song                                                                *)

ticks_per_beat == TimeDivision[song]

\* The us that ScheduleTrack sets for track t, of which n events were read.
Wait(t, n, tempo) ==
    IF n < Len(song[t]) THEN (song[t][n + 1].delta * tempo) \div ticks_per_beat ELSE 0

\* MetaSetTempo: what the queue q may be at the new tempo.
AtTempo(q, tempo) == OPL_Queue_AdjustCallbacks(q, pause_offset, us_per_beat, tempo)

\* The queue when RestartSong has called ScheduleTrack for all tracks.  One that
\* I_OPL_PlaySong has yet to start has no iterator but what was in the memory, and
\* waits for wild[t].
Unstarted == IF song = None THEN {} ELSE Len(iter) + 1 .. Len(song)
Rescheduled(wild) ==
    LET tracks == IF song = None THEN 0 ELSE Len(song)
        q[t \in 0 .. tracks] ==
            IF t = 0 THEN queue
            ELSE OPL_Queue_Push(q[t - 1],
                     IF t \in Unstarted THEN Entry(wild[t], "Track", 0, t)
                     ELSE Entry(Wait(t, 0, us_per_beat), "Track", plays, t))
    IN q[tracks]

\* RestartSong.  (A wrong version does not count the tracks anew.)
RestartCountless ==
    /\ iter' = [t \in DOMAIN iter |-> 0]
    /\ \E wild \in [Unstarted -> WildWaits] : queue' = Rescheduled(wild)
    /\ tempos' = 0
    /\ UNCHANGED <<running_tracks, us_per_beat>>
RestartSong ==
    /\ running_tracks' = IF song = None THEN 0 ELSE Len(song)
    /\ iter' = [t \in DOMAIN iter |-> 0]
    /\ \E wild \in [Unstarted -> WildWaits] : queue' = Rescheduled(wild)
    /\ tempos' = 0
    /\ UNCHANGED us_per_beat

\* The end of a track, and of the song: running_tracks is unsigned, and a number
\* below 0 stands for one that has wrapped.  A wrong version tests the count before
\* the track is taken off.
EndOfTrackEarly ==
    /\ running_tracks' = running_tracks - 1
    /\ queue' = IF running_tracks = 0 /\ song_looping
                THEN OPL_Queue_Push(queue, RestartIn(RestartDelay)) ELSE queue
EndOfTrack ==
    /\ running_tracks' = running_tracks - 1
    /\ queue' = IF running_tracks = 1 /\ song_looping
                THEN OPL_Queue_Push(queue, RestartIn(RestartDelay)) ELSE queue

\* TrackTimerCallback for track t.
TrackTimerCallback(t) ==
    IF iter[t] = Len(song[t])
    THEN UNCHANGED <<queue, iter, running_tracks, us_per_beat, tempos>>
    ELSE LET event == song[t][iter[t] + 1]
             changes == event.type = "SET_TEMPO"
             tempo == IF changes THEN event.tempo ELSE us_per_beat
         IN /\ iter' = [iter EXCEPT ![t] = @ + 1]
            /\ us_per_beat' = tempo /\ tempos' = IF changes THEN tempos + 1 ELSE tempos
            /\ IF event.type = "END_OF_TRACK"
               THEN EndOfTrack
               ELSE /\ \E q \in IF changes THEN AtTempo(queue, tempo) ELSE {queue} :
                         queue' = OPL_Queue_Push(q,
                             Entry(Wait(t, iter[t] + 1, tempo), "Track", plays, t))
                    /\ UNCHANGED running_tracks

\* TrackTimerCallback for a track that I_OPL_StopSong has freed: the memory may
\* be as it was, so that the track goes on or ends, or belong to the new song.
StaleCallback(e) ==
    \/ /\ \/ UNCHANGED <<queue, running_tracks>>
          \/ /\ \E us0 \in WildWaits :
                  queue' = OPL_Queue_Push(queue, [e EXCEPT !.time = us0])
             /\ UNCHANGED running_tracks
          \/ EndOfTrack
       /\ UNCHANGED <<iter, us_per_beat, tempos>>
    \/ e.track \in DOMAIN iter /\ TrackTimerCallback(e.track)

Stale(e) == e.callback = "Track" /\ (e.play # plays \/ song = None)

----------------------------------------------------------------------------
(* The audio thread: OPL_Mix_Callback and AdvanceTime                      *)

\* The samples that take us microseconds, rounded up, and the microseconds that n
\* samples take, rounded down.
SamplesFor(time) == (time * mixing_freq + OPL_SECOND - 1) \div OPL_SECOND
TimeOf(n) == (n * OPL_SECOND) \div mixing_freq

\* The samples to the next callback, or what room there is in the buffer.
Mix ==
    /\ step = "mix" /\ step' = "fill"
    /\ \E room \in 1 .. MaxBuffer :
         nsamples' = IF \/ opl_sdl_paused \/ queue = <<>>
                        \/ OPL_Queue_Peek(queue) < 0
                        \/ SamplesFor(OPL_Queue_Peek(queue)) > room
                     THEN room ELSE SamplesFor(OPL_Queue_Peek(queue))
    /\ UNCHANGED <<driverVars, held, songVars, mainVars, tempos, races>>

\* Is a callback of q due, it is popped, else the next samples are mixed.  A
\* wrong version leaves what is due until the next turn.
PopDueOnce(q) ==
    IF step = "fill" /\ q # <<>> /\ OPL_Queue_Peek(q) <= 0
    THEN /\ queue' = OPL_Queue_Pop(q) /\ held' = q[1] /\ step' = "call"
    ELSE /\ queue' = q /\ held' = None /\ step' = "mix"
PopDue(q) ==
    IF q # <<>> /\ OPL_Queue_Peek(q) <= 0
    THEN /\ queue' = OPL_Queue_Pop(q) /\ held' = q[1] /\ step' = "call"
    ELSE /\ queue' = q /\ held' = None /\ step' = "mix"

\* Do the samples go beyond a callback, by more than the rounding?  It was set, or
\* the song resumed, since they were counted.
Passes ==
    ~opl_sdl_paused /\ queue # <<>> /\ SamplesFor(OPL_Queue_Peek(queue)) < nsamples

\* AdvanceTime, to its first callback.
AdvanceTime ==
    /\ step = "fill"
    /\ IF opl_sdl_paused
       THEN /\ pause_offset + TimeOf(nsamples) <= MaxPause
            /\ pause_offset' = pause_offset + TimeOf(nsamples)
            /\ PopDue(queue)
       ELSE /\ PopDue([i \in DOMAIN queue |->
                          [queue[i] EXCEPT !.time = @ - TimeOf(nsamples)]])
            /\ UNCHANGED pause_offset
    /\ races' = IF nsamples > 0 /\ (start > 1 \/ Passes) THEN races \cup {"apart"} ELSE races
    /\ nsamples' = 0
    /\ UNCHANGED <<opl_sdl_paused, songVars, mainVars, tempos>>

\* The popped callback is called, with callback_mutex held.
CallCallback ==
    /\ step = "call" /\ step' = "next"
    /\ IF held.callback = "RestartSong" THEN RestartSong
       ELSE IF Stale(held) THEN StaleCallback(held)
       ELSE TrackTimerCallback(held.track)
    /\ held' = None
    /\ races' = races
         \cup (IF us_per_beat' # us_per_beat /\ pause_offset > 0 THEN {"skewed"} ELSE {})
         \cup (IF us_per_beat' # us_per_beat /\ us # None THEN {"apart"} ELSE {})
    /\ UNCHANGED <<pause_offset, opl_sdl_paused, nsamples, song, song_looping, mainVars>>

\* ... and the next one that is due is popped.
AdvanceOn ==
    /\ step = "next"
    /\ PopDue(queue)
    /\ UNCHANGED <<pause_offset, opl_sdl_paused, nsamples, songVars, mainVars, tempos, races>>

----------------------------------------------------------------------------
(* The game's thread                                                       *)

\* S_ChangeMusic, after S_StopMusic: I_OPL_PlaySong up to its first track.
I_OPL_PlaySong ==
    /\ song = None /\ plays < MaxPlays
    /\ song' \in Songs /\ song_looping' \in BOOLEAN
    /\ iter' = <<>> /\ running_tracks' = Len(song')
    /\ us_per_beat' = DefaultTempo
    /\ start' = 1 /\ plays' = plays + 1 /\ tempos' = 0
    /\ UNCHANGED <<driverVars, audioVars, us, mus_paused, races>>

\* StartTrack: ScheduleTrack reads the tempo, ...
StartTrack ==
    /\ start > 0 /\ us = None
    /\ iter' = Append(iter, 0)
    /\ us' = Wait(start, 0, us_per_beat)
    /\ UNCHANGED <<driverVars, audioVars, song, running_tracks, song_looping,
                   us_per_beat, start, mus_paused, plays, tempos, races>>

\* ... and OPL_SetCallback locks the queue.
SetCallback ==
    /\ us # None
    /\ queue' = OPL_Queue_Push(queue, Entry(us, "Track", plays, start))
    /\ us' = None /\ start' = IF start = Len(song) THEN 0 ELSE start + 1
    /\ UNCHANGED <<pause_offset, opl_sdl_paused, audioVars, songVars, mus_paused, plays,
                   tempos, races>>

\* S_StopMusic: I_OPL_ResumeSong, then I_OPL_StopSong inside OPL_Lock, which
\* keeps callbacks from being called but not a popped one from being held.
S_StopMusic ==
    /\ song # None /\ start = 0
    /\ opl_sdl_paused' = FALSE
    /\ queue' = <<>>
    /\ song' = None /\ iter' = <<>>
    /\ races' = IF held # None THEN races \cup {"overtaken"} ELSE races
    /\ UNCHANGED <<pause_offset, audioVars, running_tracks, song_looping,
                   us_per_beat, mainVars, tempos>>

\* S_PauseSound, S_ResumeSound
S_PauseSound ==
    /\ song # None /\ start = 0 /\ ~mus_paused
    /\ mus_paused' = TRUE /\ opl_sdl_paused' = TRUE
    /\ UNCHANGED <<queue, pause_offset, audioVars, songVars, start, us, plays, tempos, races>>
S_ResumeSound ==
    /\ song # None /\ start = 0 /\ mus_paused
    /\ mus_paused' = FALSE /\ opl_sdl_paused' = FALSE
    /\ UNCHANGED <<queue, pause_offset, audioVars, songVars, start, us, plays, tempos, races>>

----------------------------------------------------------------------------
Audio == Mix \/ AdvanceTime \/ CallCallback \/ AdvanceOn
Starting == StartTrack \/ SetCallback
Game == I_OPL_PlaySong \/ Starting \/ S_StopMusic \/ S_PauseSound \/ S_ResumeSound

Next == Audio \/ Game
Spec == Init /\ [][Next]_vars

\* SDL goes on asking for buffers: the audio thread, which alone moves step, takes
\* a step, except in a pause at its bound; and the game's thread starts all tracks.
AudioTurn ==
    /\ step = "fill" /\ opl_sdl_paused => pause_offset + TimeOf(nsamples) <= MaxPause
    /\ step' \in {"mix", "fill", "call", "next"} \ {step}
FairSpec == Spec /\ WF_step(AudioTurn) /\ WF_vars(Starting)

----------------------------------------------------------------------------
(* Properties                                                              *)

Tracks == IF song = None THEN {} ELSE DOMAIN song
Callbacks == (IF held = None THEN <<>> ELSE <<held>>) \o queue
Ended(t) == t \in DOMAIN iter /\ iter[t] = Len(song[t])

\* How many callbacks wait, or are about to be called, for track t.
Pending(t) ==
    Cardinality({i \in DOMAIN Callbacks :
        Callbacks[i].callback = "Track" /\ Callbacks[i].track = t})
Restarts == Cardinality({i \in DOMAIN Callbacks : Callbacks[i].callback = "RestartSong"})

\* Type invariant: in particular the queue is not longer than its array.
TypeOK ==
    /\ \A i \in DOMAIN Callbacks :
         /\ Callbacks[i].time \in Int /\ Callbacks[i].callback \in {"Track", "RestartSong"}
         /\ Callbacks[i].play \in 0 .. MaxPlays
    /\ Len(queue) <= MAX_OPL_QUEUE
    /\ pause_offset \in 0 .. MaxPause
    /\ opl_sdl_paused \in BOOLEAN /\ mus_paused \in BOOLEAN /\ song_looping \in BOOLEAN
    /\ step \in {"mix", "fill", "call", "next"}
    /\ (held # None) <=> (step = "call")
    /\ nsamples \in 0 .. MaxBuffer
    /\ song \in Songs \cup {None}
    /\ DOMAIN iter \subseteq Tracks
    /\ \A t \in DOMAIN iter : iter[t] \in 0 .. Len(song[t])
    /\ running_tracks \in Int /\ us_per_beat \in Nat \ {0}
    /\ start \in Tracks \cup {0} /\ us \in Nat \cup {None}
    /\ plays \in 0 .. MaxPlays /\ tempos \in Nat
    /\ races \subseteq {"apart", "skewed", "overtaken"}

\* opl_queue.c keeps a heap: the callback it pops is the one that is due first.
\* The order survives a change of tempo.
EarliestFirst == EarliestOnTop(queue)

\* No callback is overdue when the next samples are counted: the unsigned
\* difference at opl_sdl.c:206 would be huge, and the callback come late by the
\* rest of the buffer.
NothingLate == step = "mix" => \A i \in DOMAIN queue : queue[i].time >= 0

\* Each track has one callback until it has ended, the song one to repeat it
\* when all have (i_oplmusic.c:1405-1417); none is lost and none comes twice,
\* unless I_OPL_StopSong overtook a callback that was popped.
OneCallbackEach ==
    song # None /\ "overtaken" \notin races =>
        /\ \A t \in DOMAIN iter :
             Pending(t) = IF Ended(t) \/ (t = start /\ us # None) THEN 0 ELSE 1
        /\ Restarts = IF song_looping /\ \A t \in Tracks : Ended(t) THEN 1 ELSE 0
        /\ running_tracks = Cardinality({t \in Tracks : ~Ended(t)})

\* The tracks of a song stay in step, but for what the roundings add up to: the
\* callbacks of any two come as far apart as the score has their next events, to
\* within Rounding of each, at whatever tempo and however often it changes and the
\* song is paused or repeated.  A track is called up to a sample late, and waits
\* from then on; a division is short of less than a us; and each change of tempo
\* adds its own error to what waits, and to what is late.  A race of I_OPL_PlaySong
\* or I_OPL_StopSong with the audio thread, and a change of tempo after a pause, put
\* them out of step.
Ticks(track, n) ==
    LET ticks[k \in 0 .. Len(track)] == IF k = 0 THEN 0 ELSE ticks[k - 1] + track[k].delta
    IN ticks[n]
Score(t) == Ticks(song[t], iter[t] + 1)
SampleTime == (OPL_SECOND - 1) \div mixing_freq
Lateness == SampleTime + tempos * AdjustError
Rounding(t) == (iter[t] + 1) * (Lateness + 1) + tempos * (AdjustError + 1)
InStep ==
    song # None /\ races = {} =>
        \A i, j \in DOMAIN queue :
            queue[i].callback = "Track" /\ queue[j].callback = "Track" =>
                LET t == queue[i].track
                    u == queue[j].track
                    gap == (queue[i].time - queue[j].time) * ticks_per_beat
                             - (Score(t) - Score(u)) * us_per_beat
                IN gap * Fastest[song] <= (Rounding(t) + Rounding(u)) * ticks_per_beat * us_per_beat

\* A song that loops is repeated over and over, unless it is stopped or paused.
PlaysOn ==
    <>[](song # None /\ song_looping /\ ~opl_sdl_paused /\ "overtaken" \notin races)
        => []<>(held # None /\ held.callback = "RestartSong")

\* opl.h:131: OPL_ClearCallbacks clears all callbacks that have been set.  Those
\* of a song that was stopped are not called.
StopIsFinal == held # None => ~Stale(held)
=============================================================================
