---------------------------- MODULE RadioRequests ----------------------------
(***************************************************************************)
(* What members ask of one guild's radio (commands/radio): commands, the   *)
(* buttons of the controller, messages in the player channel, the choice   *)
(* from a menu of matches, the prompt before a track is queued twice, and  *)
(* the votes to skip.  Every command and every click runs in a goroutine   *)
(* of its own (a job), which talks to Discord, to voice and to search      *)
(* between the short sections it spends under a lock.                      *)
(*                                                                         *)
(* The playback is reduced to what a request sees of it (see RadioSession);*)
(* a song's identity is what duplicateTracks compares.                     *)
(***************************************************************************)
EXTENDS RadioQueue

CONSTANTS
  Jobs, Users,
  Admins,        \* who administrates or manages the guild
  Moderators,    \* who manages its messages
  VoiceChannels,
  Files,         \* the playlists that may be attached
  None,
  Scenarios      \* bound: what is asked for in one behaviour, by whom, how often,
                 \* how many tracks start and how often members change their voice
                 \* channel or the restriction is changed

VARIABLES
  playlist, paused,
  bot,           \* the session's voiceChannelID
  voice,         \* the members' voice channels
  restriction,   \* restrictionMode
  job,
  flight,        \* resolves: the query's call
  prompts,       \* the "Queue anyway" prompts, with their cleanup
  menus,         \* the menus of matches
  voteKey,       \* voteSkipState.currentTrack
  votes,         \* voteSkipState.votes: a ballot, or 0 once deleted
  ballots,       \* the ballots' voters
  scenario,
  requests, plays, moves

radio == <<playlist, paused, bot>>
members == <<voice, restriction>>
dialogs == <<prompts, menus>>
voting == <<voteKey, votes, ballots>>
bounds == <<scenario, requests, plays, moves>>
vars == <<radio, members, job, flight, dialogs, voting, bounds>>

Modes == {"vc", "all", "mods"}
Free == [at |-> "free", cmd |-> "", by |-> None, tracks |-> << >>, ref |-> 0, saw |-> NoTrack, heard |-> 0]
NoCall == [by |-> None, answer |-> "none"]

TypeOK ==
  /\ bot \in VoiceChannels \cup {None} /\ voice \in [Users -> VoiceChannels \cup {None}]
  /\ restriction \in Modes /\ paused \in BOOLEAN
  /\ \A j \in Jobs : DOMAIN job[j] = DOMAIN Free
  /\ \A t \in Tracks : flight[t].answer \in {"none", "found", "failed"}
  /\ votes \in 0..Len(ballots)
  /\ \A p \in DOMAIN prompts : prompts[p].timer \in {"none", "armed", "fired", "over"}

Init ==
  /\ playlist = EmptyPlaylist /\ paused = FALSE /\ bot \in VoiceChannels \cup {None}
  /\ voice \in [Users -> VoiceChannels] /\ restriction = "vc"
  /\ job = [j \in Jobs |-> Free]
  /\ flight = [t \in Tracks |-> NoCall]
  /\ prompts = << >> /\ menus = << >>
  /\ voteKey = None /\ votes = 0 /\ ballots = << >>
  /\ scenario \in Scenarios
  /\ requests = 0 /\ plays = 0 /\ moves = 0

-----------------------------------------------------------------------------
(* Who may.                                                                *)

Privileged(u) == u \in Admins

\* CanControl.
MayControl(u) ==
  \/ Privileged(u) \/ u \in Moderators
  \/ restriction = "all"
  \/ restriction = "vc" /\ voice[u] # None /\ bot \in {None, voice[u]}

\* CheckInteractionAccess: where the member is counts for moderators too.
MayClick(u) ==
  \/ Privileged(u)
  \/ /\ voice[u] # None /\ bot \in {None, voice[u]}
     /\ u \in Moderators \/ restriction # "mods"

\* OnMessageCreateForPlayerChannel asks for a voice channel only.
MayPost(u) == voice[u] # None

Goto(j, at) == job' = [job EXCEPT ![j].at = at]
Leave(j) == job' = [job EXCEPT ![j] = Free]

Allowed(cmd) == cmd \in scenario.asks /\ requests < scenario.max

Asks(j, u, cmd, at, tracks) ==
  /\ job[j].at = "free" /\ Allowed(cmd)
  /\ requests' = requests + 1
  /\ job' = [job EXCEPT ![j] = [Free EXCEPT !.at = at, !.cmd = cmd, !.by = u, !.tracks = tracks]]
  /\ UNCHANGED <<radio, members, flight, dialogs, voting, scenario, plays, moves>>

Join(j, u) == MayControl(u) /\ Asks(j, u, "join", "connect", << >>)

Play(j, u) == MayControl(u) /\ \E t \in Tracks : Asks(j, u, "play", "connect", <<t>>)

PlayNext(j, u) == MayControl(u) /\ \E t \in Tracks : Asks(j, u, "playnext", "connect", <<t>>)

\* The attached file is read before the voice channel is joined.
PlayFile(j, u) == MayControl(u) /\ \E tracks \in Files : Asks(j, u, "playfile", "connect", tracks)

PlaySession(j, u) == MayControl(u) /\ \E t \in Tracks : Asks(j, u, "session", "connect", <<t>>)

Search(j, u) == MayControl(u) /\ Asks(j, u, "find", "connect", << >>)

Post(j, u) == MayPost(u) /\ \E t \in Tracks : Asks(j, u, "post", "connect", <<t>>)

-----------------------------------------------------------------------------
(* Joining, and finding what is asked for.                                 *)

AfterConnect(cmd) ==
  CASE cmd = "join" -> "free"
    [] cmd \in {"play", "playnext", "post"} -> "resolve"
    [] cmd = "playfile" -> "check"
    [] cmd \in {"session", "find"} -> "search"

\* The member is in no voice channel by now, the bot may not speak there, or
\* joining fails.
ConnectFails(j) ==
  /\ job[j].at = "connect"
  /\ Leave(j)
  /\ UNCHANGED <<radio, members, flight, dialogs, voting, bounds>>

\* ensureConnected: a session that changes its channel plays its track anew.
Connects(j) ==
  LET c == voice[job[j].by] IN
  /\ job[j].at = "connect" /\ c # None
  /\ bot' = c
  /\ playlist' = IF bot = c THEN playlist ELSE Requeued(playlist)
  /\ paused' = (paused /\ bot = c)
  /\ IF job[j].cmd = "join" THEN Leave(j) ELSE Goto(j, AfterConnect(job[j].cmd))
  /\ UNCHANGED <<members, flight, dialogs, voting, bounds>>

\* What a job does with the answer to its query.
Answered(r, answer) ==
  IF answer = "failed" THEN Free
  ELSE [r EXCEPT !.at = IF r.cmd = "post" THEN "enqueue" ELSE "check"]

\* ResolveQuery: the first to ask asks for all.
Resolve(j) ==
  LET t == job[j].tracks[1] IN
  /\ job[j].at = "resolve"
  /\ IF flight[t].by = None
     THEN flight' = [flight EXCEPT ![t].by = j] /\ Goto(j, "fetching")
     ELSE /\ UNCHANGED flight
          /\ IF flight[t].answer = "none" THEN Goto(j, "joined")
             ELSE job' = [job EXCEPT ![j] = Answered(@, flight[t].answer)]
  /\ UNCHANGED <<radio, members, dialogs, voting, bounds>>

\* The answer is there and the call's channel is closed.
Fetched(j) ==
  LET t == job[j].tracks[1] IN
  /\ job[j].at = "fetching"
  /\ \E answer \in {"found", "failed"} :
       /\ flight' = [flight EXCEPT ![t].answer = answer]
       /\ job' = [k \in Jobs |->
                    IF k = j THEN [job[j] EXCEPT !.at = "closing"]
                    ELSE IF job[k].at = "joined" /\ job[k].tracks[1] = t THEN Answered(job[k], answer)
                    ELSE job[k]]
  /\ UNCHANGED <<radio, members, dialogs, voting, bounds>>

\* Mutant of Forget: a failed call stays in the table.
ForgetFound(j) ==
  LET t == job[j].tracks[1] IN
  /\ job[j].at = "closing"
  /\ flight' = IF flight[t].answer = "found" THEN [flight EXCEPT ![t] = NoCall] ELSE flight
  /\ job' = [job EXCEPT ![j] = Answered(@, flight[t].answer)]
  /\ UNCHANGED <<radio, members, dialogs, voting, bounds>>

Forget(j) ==
  LET t == job[j].tracks[1] IN
  /\ job[j].at = "closing"
  /\ flight' = [flight EXCEPT ![t] = NoCall]
  /\ job' = [job EXCEPT ![j] = Answered(@, flight[t].answer)]
  /\ UNCHANGED <<radio, members, dialogs, voting, bounds>>

\* The time of a command that waits for another's answer runs out.
GiveUp(j) ==
  /\ job[j].at = "joined"
  /\ Leave(j)
  /\ UNCHANGED <<radio, members, flight, dialogs, voting, bounds>>

\* fetchJuiceWRLDCandidates: a query that matches several songs.
Candidates(j) ==
  /\ job[j].at = "resolve" /\ job[j].cmd = "play"
  /\ Goto(j, "menu")
  /\ UNCHANGED <<radio, members, flight, dialogs, voting, bounds>>

\* One session edit is queued at once; of several the member chooses.
SearchFinds(j) ==
  /\ job[j].at = "search"
  /\ \/ job[j].cmd = "session" /\ Goto(j, "check")
     \/ Goto(j, "menu")
     \/ Leave(j)
  /\ UNCHANGED <<radio, members, flight, dialogs, voting, bounds>>

-----------------------------------------------------------------------------
(* The menu of matches (showInteractiveTrackSelector).                     *)

ShowMenu(j) ==
  /\ job[j].at = "menu"
  /\ \/ /\ menus' = Append(menus, [by |-> job[j].by, shown |-> TRUE, handler |-> TRUE,
                                   removable |-> FALSE, cleaned |-> FALSE])
        /\ job' = [job EXCEPT ![j].at = "menuHandler", ![j].ref = Len(menus) + 1]
     \/ Leave(j) /\ UNCHANGED menus
  /\ UNCHANGED <<radio, members, flight, prompts, voting, bounds>>

\* AddHandler has returned what removes the handler.
MenuHandler(j) ==
  /\ job[j].at = "menuHandler"
  /\ menus' = [menus EXCEPT ![job[j].ref].removable = TRUE]
  /\ Leave(j)
  /\ UNCHANGED <<radio, members, flight, prompts, voting, bounds>>

\* cleanup runs once, and removes the handler if it is known by then.
CleanedUp(m) == [m EXCEPT !.cleaned = TRUE,
                          !.handler = @ /\ ~(m.removable /\ ~m.cleaned)]

\* The command's author chooses, if the policy still allows; a track may be too
\* long to be queued.
Select(j, m, t) ==
  /\ job[j].at = "free" /\ Allowed("select")
  /\ menus[m].shown /\ menus[m].handler
  /\ requests' = requests + 1
  /\ menus' = [menus EXCEPT ![m] = CleanedUp(@)]
  /\ \/ job' = [job EXCEPT ![j] = [Free EXCEPT !.at = "check", !.cmd = "select", !.by = menus[m].by,
                                               !.tracks = <<t>>]]
     \/ UNCHANGED job
  /\ UNCHANGED <<radio, members, flight, prompts, voting, scenario, plays, moves>>

\* A minute after the menu was shown.
MenuExpires(m) ==
  /\ menus[m].shown /\ menus[m].removable
  /\ menus' = [menus EXCEPT ![m] = [CleanedUp(@) EXCEPT !.shown = FALSE]]
  /\ UNCHANGED <<radio, members, job, flight, prompts, voting, bounds>>

-----------------------------------------------------------------------------
(* Queueing, and the prompt before a track is queued twice.                *)

Duplicate(t) ==
  \/ playlist.current # NoTrack /\ playlist.current.id = t
  \/ \E i \in DOMAIN playlist.queue : playlist.queue[i].id = t /\ ~playlist.queue[i].auto

Place(cmd) == IF cmd = "playnext" THEN "next" ELSE "back"

\* enqueueTracksWithDuplicateConfirmation, up to its decision.
Check(j) ==
  /\ job[j].at = "check"
  /\ Goto(j, IF \E i \in DOMAIN job[j].tracks : Duplicate(job[j].tracks[i]) THEN "prompt" ELSE "enqueue")
  /\ UNCHANGED <<radio, members, flight, dialogs, voting, bounds>>

\* Enqueued of RadioQueue, for tracks that know who asked for them; a track that
\* autoplay had queued keeps its own.
AdmitFrom(acc, e) ==
  LET twins == {i \in AutoPending(acc.queue) : acc.queue[i].id = e.id} IN
  IF twins = {} THEN [acc EXCEPT !.incoming = Append(@, e)]
  ELSE [acc EXCEPT !.queue[Min(twins)].auto = FALSE]

Placed(p, tracks, u, place) ==
  LET entries == [i \in DOMAIN tracks |-> [id |-> tracks[i], auto |-> FALSE, by |-> u]]
      admitted == FoldLeft(AdmitFrom, [queue |-> p.queue, incoming |-> << >>], entries)
      cut == IF place = "next" THEN 0 ELSE UserPrefix(admitted.queue)
  IN [p EXCEPT !.queue = SubSeq(admitted.queue, 1, cut) \o admitted.incoming
                           \o SubSeq(admitted.queue, cut + 1, Len(admitted.queue))]

\* The queue may be full, or the session not to be had.
Enqueue(j) ==
  LET r == job[j] IN
  /\ job[j].at = "enqueue"
  /\ \/ /\ HasRoomFor(playlist, r.tracks)
        /\ playlist' = Placed(playlist, r.tracks, r.by, Place(r.cmd))
        /\ prompts' = IF r.ref = 0 THEN prompts ELSE [prompts EXCEPT ![r.ref].queued = @ + 1]
     \/ UNCHANGED <<playlist, prompts>>
  /\ Leave(j)
  /\ UNCHANGED <<paused, bot, members, flight, menus, voting, bounds>>

\* promptDiscordQueueConfirmation: the message, then its handler.
ShowPrompt(j) ==
  /\ job[j].at = "prompt"
  /\ \/ /\ prompts' = Append(prompts, [by |-> job[j].by, cmd |-> job[j].cmd, tracks |-> job[j].tracks,
                                       settled |-> "no", handler |-> TRUE, removable |-> FALSE,
                                       timer |-> "none", stoppable |-> FALSE, queued |-> 0])
        /\ job' = [job EXCEPT ![j].at = "promptHandler", ![j].ref = Len(prompts) + 1]
     \/ Leave(j) /\ UNCHANGED prompts
  /\ UNCHANGED <<radio, members, flight, menus, voting, bounds>>

\* Mutant of PromptHandler: setRemoveHandler does not look whether a click was
\* faster.
PromptHandlerLate(j) ==
  /\ job[j].at = "promptHandler"
  /\ prompts' = [prompts EXCEPT ![job[j].ref].removable = TRUE]
  /\ Goto(j, "promptTimer")
  /\ UNCHANGED <<radio, members, flight, menus, voting, bounds>>

PromptHandler(j) ==
  LET p == job[j].ref IN
  /\ job[j].at = "promptHandler"
  /\ prompts' = IF prompts[p].settled = "no" THEN [prompts EXCEPT ![p].removable = TRUE]
                ELSE [prompts EXCEPT ![p].handler = FALSE]
  /\ Goto(j, "promptTimer")
  /\ UNCHANGED <<radio, members, flight, menus, voting, bounds>>

\* AfterFunc, and then setTimer.
PromptTimer(j) ==
  /\ job[j].at = "promptTimer"
  /\ prompts' = [prompts EXCEPT ![job[j].ref].timer = "armed"]
  /\ Goto(j, "promptSetTimer")
  /\ UNCHANGED <<radio, members, flight, menus, voting, bounds>>

Disarmed(timer) == IF timer = "armed" THEN "over" ELSE timer

PromptSetTimer(j) ==
  LET p == job[j].ref IN
  /\ job[j].at = "promptSetTimer"
  /\ prompts' = IF prompts[p].settled = "no" THEN [prompts EXCEPT ![p].stoppable = TRUE]
                ELSE [prompts EXCEPT ![p].timer = Disarmed(@)]
  /\ Leave(j)
  /\ UNCHANGED <<radio, members, flight, menus, voting, bounds>>

\* The requester presses a button of the prompt, and the press is acknowledged.
Press(j, p, button) ==
  /\ job[j].at = "free" /\ Allowed(button)
  /\ prompts[p].handler
  /\ requests' = requests + 1
  /\ job' = [job EXCEPT ![j] = [Free EXCEPT !.at = button, !.cmd = prompts[p].cmd, !.by = prompts[p].by,
                                            !.tracks = prompts[p].tracks, !.ref = p]]
  /\ UNCHANGED <<radio, members, flight, dialogs, voting, scenario, plays, moves>>

\* queueConfirmationCleanup.finish: what it does to the prompt.
Settled(p, outcome) ==
  [p EXCEPT !.settled = outcome,
            !.timer = IF p.stoppable THEN Disarmed(@) ELSE @,
            !.handler = @ /\ ~p.removable]

Cancel(j) ==
  LET p == job[j].ref IN
  /\ job[j].at = "cancel"
  /\ prompts' = IF prompts[p].settled = "no" THEN [prompts EXCEPT ![p] = Settled(@, "cancelled")] ELSE prompts
  /\ Leave(j)
  /\ UNCHANGED <<radio, members, flight, menus, voting, bounds>>

\* Mutant of Confirm: the prompt may have been settled before.
ConfirmAnyway(j) ==
  LET p == job[j].ref IN
  /\ job[j].at = "confirm"
  /\ prompts' = [prompts EXCEPT ![p] = Settled(@, "confirmed")]
  /\ Goto(j, "enqueue") \/ Leave(j)
  /\ UNCHANGED <<radio, members, flight, menus, voting, bounds>>

\* The confirmed request is queued as a whole, if the policy still allows.
Confirm(j) ==
  LET p == job[j].ref IN
  /\ job[j].at = "confirm"
  /\ IF prompts[p].settled = "no"
     THEN /\ prompts' = [prompts EXCEPT ![p] = Settled(@, "confirmed")]
          /\ Goto(j, "enqueue") \/ Leave(j)
     ELSE UNCHANGED prompts /\ Leave(j)
  /\ UNCHANGED <<radio, members, flight, menus, voting, bounds>>

PromptFires(p) ==
  /\ prompts[p].timer = "armed"
  /\ prompts' = [prompts EXCEPT ![p].timer = "fired"]
  /\ UNCHANGED <<radio, members, job, flight, menus, voting, bounds>>

PromptExpires(p) ==
  /\ prompts[p].timer = "fired"
  /\ prompts' = [prompts EXCEPT ![p] = IF @.settled = "no" THEN [Settled(@, "expired") EXCEPT !.timer = "over"]
                                       ELSE [@ EXCEPT !.timer = "over"]]
  /\ UNCHANGED <<radio, members, job, flight, menus, voting, bounds>>

-----------------------------------------------------------------------------
(* Votes to skip (ProcessVoteSkip).                                        *)

\* The track the member sees, by a command or the button.
AskSkip(j, u) ==
  /\ MayControl(u) \/ MayClick(u)
  /\ job[j].at = "free" /\ Allowed("skip")
  /\ playlist.current # NoTrack
  /\ requests' = requests + 1
  /\ job' = [job EXCEPT ![j] = [Free EXCEPT !.at = "ballot", !.cmd = "skip", !.by = u, !.saw = [id |-> playlist.current.id, by |-> playlist.current.by, ch |-> bot]]]
  /\ UNCHANGED <<radio, members, flight, dialogs, voting, scenario, plays, moves>>

\* A track other than the last one that was voted on gets a ballot of its own.
Ballot(j) ==
  LET key == job[j].saw.id IN
  /\ job[j].at = "ballot"
  /\ IF voteKey = key THEN UNCHANGED voting
     ELSE /\ voteKey' = key
          /\ votes' = Len(ballots) + 1
          /\ ballots' = Append(ballots, {})
  /\ job' = [job EXCEPT ![j].at = "count", ![j].ref = votes']
  /\ UNCHANGED <<radio, members, flight, dialogs, bounds>>

Listeners(c) == Cardinality({u \in Users : voice[u] = c})

\* Who may skip alone.
MaySkip(u, saw, listeners) ==
  \/ Privileged(u)
  \/ saw.by = u
  \/ listeners <= 2

Count(j) ==
  /\ job[j].at = "count"
  /\ LET n == Listeners(job[j].saw.ch) IN
       job' = [job EXCEPT ![j].at = IF MaySkip(job[j].by, job[j].saw, n) THEN "skip" ELSE "vote", ![j].heard = n]
  /\ UNCHANGED <<radio, members, flight, dialogs, voting, bounds>>

\* The ballot is deleted, its track is not forgotten.
SkipAlone(j) ==
  /\ job[j].at = "skip"
  /\ votes' = 0
  /\ Goto(j, "control")
  /\ UNCHANGED <<radio, members, flight, dialogs, voteKey, ballots, bounds>>

\* Skipped of RadioQueue; a paused track that is skipped is paused no more.
SkipNow ==
  IF playlist.current = NoTrack /\ playlist.queue = << >> THEN UNCHANGED <<playlist, paused>>
  ELSE playlist' = Skipped(playlist) /\ paused' = FALSE

Slip(j) == [by |-> job[j].by, key |-> job[j].saw.id]
Voters(b) == {v.by : v \in ballots[b]}

\* Mutant of Vote: a vote goes to the ballot that is open by now.
VoteInOpenBallot(j) ==
  /\ job[j].at = "vote"
  /\ IF votes = 0 \/ job[j].by \in Voters(votes) THEN UNCHANGED <<playlist, paused, votes, ballots>>
     ELSE /\ ballots' = [ballots EXCEPT ![votes] = @ \cup {Slip(j)}]
          /\ IF 2 * (Cardinality(Voters(votes)) + 1) >= job[j].heard
             THEN votes' = 0 /\ SkipNow
             ELSE UNCHANGED <<playlist, paused, votes>>
  /\ Leave(j)
  /\ UNCHANGED <<bot, members, flight, dialogs, voteKey, bounds>>

\* A vote goes to the ballot that was looked up; without one the handler panics
\* (a map that was deleted), which is recovered.
Vote(j) ==
  LET b == job[j].ref IN
  /\ job[j].at = "vote"
  /\ IF b = 0 THEN UNCHANGED <<playlist, paused, votes, ballots>>
     ELSE IF job[j].by \in Voters(b) THEN UNCHANGED <<playlist, paused, votes, ballots>>
     ELSE /\ ballots' = [ballots EXCEPT ![b] = @ \cup {Slip(j)}]
          /\ IF 2 * (Cardinality(Voters(b)) + 1) >= job[j].heard
             THEN votes' = 0 /\ SkipNow
             ELSE UNCHANGED <<playlist, paused, votes>>
  /\ Leave(j)
  /\ UNCHANGED <<bot, members, flight, dialogs, voteKey, bounds>>

-----------------------------------------------------------------------------
(* The other controls: commands, and buttons.                              *)

Orders(j, u, act) ==
  /\ MayControl(u) \/ MayClick(u)
  /\ job[j].at = "free" /\ Allowed(act)
  /\ requests' = requests + 1
  /\ job' = [job EXCEPT ![j] = [Free EXCEPT !.at = "control", !.cmd = act, !.by = u]]
  /\ UNCHANGED <<radio, members, flight, dialogs, voting, scenario, plays, moves>>

AskPrevious(j, u) == Orders(j, u, "previous")

\* The phase is looked up before it is changed.
AskPause(j, u) == ~paused /\ playlist.current # NoTrack /\ Orders(j, u, "pause")

AskResume(j, u) == paused /\ Orders(j, u, "resume")

AskLoop(j, u) == Orders(j, u, "loop")

AskShuffle(j, u) == Orders(j, u, "shuffle")

AskClear(j, u) == Orders(j, u, "clear")

AskLeave(j, u) == Orders(j, u, "leave")

AskForceLeave(j, u) == Privileged(u) /\ Orders(j, u, "leave")

\* Module.Control, where the order finds the session by then.
Control(j) ==
  /\ job[j].at = "control"
  /\ LET cmd == job[j].cmd IN
       \/ cmd = "skip" /\ SkipNow /\ UNCHANGED bot
       \/ cmd = "previous" /\ UNCHANGED bot
            /\ IF HasPrevious(playlist) THEN playlist' = SelectedPrevious(playlist) /\ paused' = FALSE
               ELSE UNCHANGED <<playlist, paused>>
       \/ cmd \in {"pause", "resume"} /\ UNCHANGED <<playlist, bot>>
            /\ paused' = IF playlist.current = NoTrack THEN paused ELSE cmd = "pause"
       \/ cmd = "loop" /\ UNCHANGED <<paused, bot>> /\ \E m \in LoopModes : playlist' = LoopSet(playlist, m)
       \/ cmd = "shuffle" /\ UNCHANGED <<paused, bot>> /\ playlist' \in Shuffled(playlist)
       \/ cmd = "clear" /\ UNCHANGED <<paused, bot>> /\ playlist' = Cleared(playlist)
       \/ cmd = "leave" /\ playlist' = Emptied(playlist) /\ paused' = FALSE /\ bot' = None
  /\ Leave(j)
  /\ UNCHANGED <<members, flight, dialogs, voting, bounds>>

-----------------------------------------------------------------------------
(* The playback, and the members.                                          *)

StartNext ==
  /\ bot # None /\ playlist.current = NoTrack /\ playlist.queue # << >> /\ plays < scenario.plays
  /\ playlist' = SelectedNext(playlist)
  /\ plays' = plays + 1
  /\ UNCHANGED <<paused, bot, members, job, flight, dialogs, voting, scenario, requests, moves>>

TrackEnds ==
  /\ playlist.current # NoTrack /\ ~paused
  /\ playlist' = Finished(playlist, TRUE)
  /\ UNCHANGED <<paused, bot, members, job, flight, dialogs, voting, bounds>>

Autoplay(t) ==
  /\ bot # None /\ playlist.queue = << >> /\ playlist.current = NoTrack /\ plays < scenario.plays
  /\ playlist' = [playlist EXCEPT !.queue = <<[id |-> t, auto |-> TRUE, by |-> None]>>]
  /\ UNCHANGED <<paused, bot, members, job, flight, dialogs, voting, bounds>>

Moves(u, c) ==
  /\ moves < scenario.moves /\ voice[u] # c
  /\ moves' = moves + 1
  /\ voice' = [voice EXCEPT ![u] = c]
  /\ UNCHANGED <<radio, restriction, job, flight, dialogs, voting, scenario, requests, plays>>

SetRestriction(mode) ==
  /\ moves < scenario.moves /\ Admins # {} /\ restriction # mode
  /\ moves' = moves + 1
  /\ restriction' = mode
  /\ UNCHANGED <<radio, voice, job, flight, dialogs, voting, scenario, requests, plays>>

JobStep(j) ==
  \/ ConnectFails(j) \/ Connects(j)
  \/ Resolve(j) \/ Fetched(j) \/ Forget(j) \/ GiveUp(j)
  \/ Candidates(j) \/ SearchFinds(j)
  \/ ShowMenu(j) \/ MenuHandler(j)
  \/ Check(j) \/ Enqueue(j)
  \/ ShowPrompt(j) \/ PromptHandler(j) \/ PromptTimer(j) \/ PromptSetTimer(j)
  \/ Cancel(j) \/ Confirm(j)
  \/ Ballot(j) \/ Count(j) \/ SkipAlone(j) \/ Vote(j)
  \/ Control(j)

\* RadioGroupCmd.Execute, OnRadioInteraction and the messages of the player
\* channel: what a member may ask for.
Ask(j, u) ==
  \/ Join(j, u) \/ Play(j, u) \/ PlayNext(j, u) \/ PlayFile(j, u)
  \/ PlaySession(j, u) \/ Search(j, u) \/ Post(j, u)
  \/ AskSkip(j, u) \/ AskPrevious(j, u) \/ AskPause(j, u) \/ AskResume(j, u)
  \/ AskLoop(j, u) \/ AskShuffle(j, u) \/ AskClear(j, u) \/ AskLeave(j, u) \/ AskForceLeave(j, u)

Next ==
  \/ \E j \in Jobs : JobStep(j)
  \/ \E j \in Jobs, u \in scenario.who : Ask(j, u)
  \/ \E j \in Jobs, m \in DOMAIN menus, t \in Tracks : Select(j, m, t)
  \/ \E j \in Jobs, p \in DOMAIN prompts, button \in {"confirm", "cancel"} : Press(j, p, button)
  \/ \E m \in DOMAIN menus : MenuExpires(m)
  \/ \E p \in DOMAIN prompts : PromptFires(p) \/ PromptExpires(p)
  \/ StartNext \/ TrackEnds
  \/ \E t \in Tracks : Autoplay(t)
  \/ \E u \in Users, c \in VoiceChannels \cup {None} : Moves(u, c)
  \/ \E mode \in Modes : SetRestriction(mode)

Spec == Init /\ [][Next]_vars

-----------------------------------------------------------------------------
(* What holds.                                                             *)

\* What a prompt asked about is queued at most once, and only if its requester
\* confirmed it before cancelling and before it expired, however clicks and the
\* timer overtake each other.
ConfirmedOnce ==
  \A p \in DOMAIN prompts :
    prompts[p].queued > 0 => prompts[p].queued = 1 /\ prompts[p].settled = "confirmed"

\* A settled prompt leaves no handler and no running timer behind once the job
\* that showed it is done, even if it was settled before they were known.
NothingLeft ==
  \A p \in DOMAIN prompts :
    \/ prompts[p].settled = "no"
    \/ \E j \in Jobs : job[j].ref = p /\ job[j].at \in {"promptHandler", "promptTimer", "promptSetTimer"}
    \/ ~prompts[p].handler /\ prompts[p].timer # "armed"

\* The votes of a ballot were cast by members who saw one and the same track
\* playing, also in a ballot that was replaced or deleted while somebody was
\* about to write to it; and the open ballot's is the track last voted on.  So
\* no count adds up votes for different tracks.  Which track a count skips is
\* another matter: the one that plays by then.
BallotIsForItsTrack ==
  /\ \A b \in DOMAIN ballots : \A v, w \in ballots[b] : v.key = w.key
  /\ votes # 0 => \A v \in ballots[votes] : v.key = voteKey

\* A query that is in the table of resolves is being worked on: nobody waits for
\* an answer that nobody will bring.
FlightsAreOwned ==
  \A t \in Tracks : flight[t].by # None =>
    /\ job[flight[t].by].at \in {"fetching", "closing"}
    /\ job[flight[t].by].tracks[1] = t
=============================================================================
