------------------------------ MODULE Playback ------------------------------
(***************************************************************************)
(* The playback of recorded values in the viewer: the controls in the      *)
(* bottom dock, which load a history once and step through it with an      *)
(* interval, and the viewer, which shows the frame it was last given in    *)
(* place of the live values.                                               *)
(*                                                                         *)
(* Collapsing the dock unmounts the controls; opening it mounts new ones.  *)
(* A callback sees the state of the render it was made in, so an interval  *)
(* keeps for good the totalFrames of the click that started it.            *)
(*                                                                         *)
(* The specification's names are not those of Console, so that one module  *)
(* can prove theorems of both.                                             *)
(***************************************************************************)
EXTENDS Integers

CONSTANTS
    Players,    \* the controls that are mounted, one after the other
    Nothing,
    MaxFrames,  \* the longest history
    SkipBy,     \* frames that skipForward jumps, 10 in the code
    MaxPresses  \* buttons the user presses

ASSUME PlaybackAssumption ==
    /\ MaxFrames \in Nat /\ SkipBy \in Nat \ {0} /\ MaxPresses \in Nat
    /\ Nothing \notin Players /\ Nothing \notin Nat

VARIABLES
    player,     \* the state of each PlaybackControls
    up,         \* the mounted one, Nothing while the dock is collapsed
    fresh,      \* those not mounted yet
    show,       \* showPlayback of the viewer
    shown,      \* the frame in playbackValues, Nothing when they are empty
    ended,      \* the players whose last interval ran to its end
    presses
playbackVars == <<player, up, fresh, show, shown, ended, presses>>
viewer == <<show, shown>>

Frames == 0..MaxFrames
Controls == [loading : BOOLEAN, playing : BOOLEAN, loaded : BOOLEAN, totalFrames : Frames,
             frame : Nat, tick : Frames \cup {Nothing}, timer : Frames \cup {Nothing}]
Blank == [loading |-> FALSE, playing |-> FALSE, loaded |-> FALSE, totalFrames |-> 0,
          frame |-> 0, tick |-> Nothing, timer |-> Nothing]

PlaybackInit ==
    /\ player = [p \in Players |-> Blank]
    /\ up \in Players /\ fresh = Players \ {up}
    /\ show = FALSE /\ shown = Nothing /\ ended = {} /\ presses = 0

Pressed == presses < MaxPresses /\ presses' = presses + 1
Put(p, pl) == player' = [player EXCEPT ![p] = pl]
ClearedNot(pl) == pl   \* mutant: clearInterval is forgotten
Cleared(pl) == [pl EXCEPT !.timer = Nothing]

-----------------------------------------------------------------------------
(* The dock.                                                               *)
MountControls == \E p \in fresh : up' = p /\ fresh' = fresh \ {p} /\ UNCHANGED player
UnmountControls == up' = Nothing /\ Put(up, Cleared(player[up])) /\ UNCHANGED fresh

ToggleDock ==
    /\ Pressed
    /\ IF up = Nothing THEN MountControls ELSE UnmountControls
    /\ UNCHANGED <<viewer, ended>>

\* The button of the top bar hides the frame or shows it, and opens the dock.
TogglePlayback ==
    /\ Pressed
    /\ show' = ~show
    /\ IF up = Nothing THEN MountControls ELSE UNCHANGED <<player, up, fresh>>
    /\ UNCHANGED <<shown, ended>>

-----------------------------------------------------------------------------
(* The buttons of the controls.                                            *)
Play ==
    LET pl == player[up] IN
    /\ up # Nothing /\ Pressed
    /\ ~pl.playing /\ ~pl.loading
    /\ Put(up, IF pl.loaded THEN [pl EXCEPT !.playing = TRUE, !.timer = pl.totalFrames]
               ELSE [pl EXCEPT !.loading = TRUE, !.tick = pl.totalFrames])
    /\ ended' = ended \ {up}
    /\ UNCHANGED <<up, fresh, viewer>>

Paused(pl) == [Cleared(pl) EXCEPT !.playing = FALSE]

Pause ==
    /\ up # Nothing /\ Pressed
    /\ player[up].playing
    /\ Put(up, Paused(player[up]))
    /\ UNCHANGED <<up, fresh, viewer, ended>>

Reset ==
    /\ up # Nothing /\ Pressed
    /\ ~player[up].loading
    /\ Put(up, [Paused(player[up]) EXCEPT !.frame = 0])
    /\ ended' = ended \ {up}
    /\ UNCHANGED <<up, fresh, viewer>>

Least(a, b) == IF a < b THEN a ELSE b
AdvancedNot(frame) == frame   \* mutant: the frame is not counted
Advanced(frame) == frame + 1

\* One step: show the frame, count it, and stop after the last.
Step(p, pl, total) ==
    LET over == Advanced(pl.frame) >= total
        moved == [pl EXCEPT !.frame = Advanced(@)] IN
    /\ Put(p, IF over THEN [Cleared(moved) EXCEPT !.playing = IF p = up THEN FALSE ELSE @]
              ELSE moved)
    /\ show' = ~over
    /\ shown' = (IF over \/ pl.totalFrames = 0 THEN Nothing ELSE Least(pl.frame, pl.totalFrames - 1))
    /\ ended' = (IF over THEN ended \cup {p} ELSE ended)
    /\ UNCHANGED <<up, fresh>>

SkippedFar(pl) == pl.frame + SkipBy   \* mutant: past the last frame
Skipped(pl) == Least(pl.frame + SkipBy, pl.totalFrames - 1)

SkipForward ==
    /\ up # Nothing /\ Pressed
    /\ player[up].playing
    /\ Step(up, [player[up] EXCEPT !.frame = Skipped(player[up])], player[up].totalFrames)

-----------------------------------------------------------------------------
(* The history arrives, of any length; failed loads count as empty.  The   *)
(* controls may be gone by then: their state is not set, their refs are.   *)
Loaded(p) ==
    /\ player[p].loading
    /\ \E n \in Frames :
        Put(p, [player[p] EXCEPT !.loading = FALSE, !.loaded = TRUE, !.frame = 0, !.totalFrames = n,
                                 !.playing = (p = up /\ n > 0),
                                 !.timer = IF n > 0 THEN player[p].tick ELSE Nothing])
    /\ UNCHANGED <<up, fresh, viewer, ended, presses>>

\* The interval fires.
Tick(p) ==
    /\ player[p].timer # Nothing
    /\ Step(p, player[p], player[p].timer)
    /\ UNCHANGED presses

PlaybackNext ==
    \/ ToggleDock \/ TogglePlayback \/ Play \/ Pause \/ Reset \/ SkipForward
    \/ \E p \in Players : Loaded(p) \/ Tick(p)

\* The browser fires an interval as long as it is set.
PlaybackSpec == PlaybackInit /\ [][PlaybackNext]_playbackVars /\ \A p \in Players : WF_playbackVars(Tick(p))

-----------------------------------------------------------------------------
\* Every variable has its values: the frame never runs more than the presses
\* that start a new interval beyond the history.
PlaybackTypeOK ==
    /\ player \in [Players -> Controls]
    /\ up \in Players \cup {Nothing} /\ fresh \subseteq Players \ {up} /\ ended \subseteq Players
    /\ show \in BOOLEAN /\ shown \in Frames \cup {Nothing} /\ presses \in 0..MaxPresses
    /\ \A p \in Players : player[p].frame <= player[p].totalFrames + presses

\* An interval runs exactly while the mounted controls show Pause; one of
\* controls that are gone was started by a load that outlived them
\* (timerRef and the cleanup of PlaybackControls).
TimersOwned ==
    \A p \in Players : IF p = up THEN player[p].playing <=> player[p].timer # Nothing
                       ELSE player[p].timer # Nothing => ~player[p].playing

\* Whatever is clicked, every interval ends (the check in tick).
PlaybackEnds == \A p \in Players : player[p].timer # Nothing ~> player[p].timer = Nothing

\* Playback "replays frame-by-frame" (documentation.md:1607): an interval that
\* runs to its end has gone through the whole history.
PlaysAll == \A p \in ended : player[p].frame >= player[p].totalFrames
=============================================================================
