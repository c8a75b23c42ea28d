---------------------------- MODULE FrameCounter ----------------------------
(***************************************************************************)
(* FrameCountingRenderer of src/voxel/adapters/renderer.rs: a renderer   *)
(* that forwards every call to another one and counts the calls.         *)
(*                                                                       *)
(* The renderer inside is external.  It does what ports/renderer.rs asks *)
(* of one: a handle is good from begin_frame to the next begin_frame or  *)
(* the end_frame that accepts it, and any call may fail.                 *)
(***************************************************************************)
EXTENDS Naturals

CONSTANT
    MaxFrames     \* bound: handles given out, calls counted

VARIABLES
    begun_frames, chunk_submissions, ended_frames,
    minted,       \* handles the renderer inside has given out
    open,         \* the handle it takes, or NoFrame
    lost,         \* history: begins since the reset that no end will match
    orphan,       \* history: whether the reset fell into a frame
    drawn         \* history: submissions the renderer took since the reset

counter == <<begun_frames, chunk_submissions, ended_frames>>
frames == <<counter, minted, open, lost, orphan, drawn>>

NoFrame == 0

OpenFrames == IF open = NoFrame THEN 0 ELSE 1

CounterInit ==
    /\ begun_frames = 0 /\ chunk_submissions = 0 /\ ended_frames = 0
    /\ minted = 0 /\ open = NoFrame
    /\ lost = 0 /\ orphan = 0 /\ drawn = 0

(* Counted before it is forwarded.  The renderer may refuse, for a fault or *)
(* because a frame is open, or give up the open frame for a new one.     *)
begin_frame(fails) ==
    /\ begun_frames < MaxFrames
    /\ begun_frames' = begun_frames + 1
    /\ IF fails
       THEN /\ lost' = lost + 1
            /\ UNCHANGED <<minted, open>>
       ELSE /\ minted < MaxFrames
            /\ minted' = minted + 1 /\ open' = minted + 1
            /\ lost' = lost + OpenFrames
    /\ UNCHANGED <<chunk_submissions, ended_frames, orphan, drawn>>

(* Counted when the renderer has accepted it; a stale handle is refused. *)
submit_chunk(frame, fails) ==
    /\ drawn < MaxFrames
    /\ IF frame = open /\ ~fails
       THEN chunk_submissions' = chunk_submissions + 1 /\ drawn' = drawn + 1
       ELSE UNCHANGED <<chunk_submissions, drawn>>
    /\ UNCHANGED <<begun_frames, ended_frames, minted, open, lost, orphan>>

end_frame(frame, fails) ==
    /\ ended_frames < MaxFrames
    /\ IF frame = open /\ ~fails
       THEN ended_frames' = ended_frames + 1 /\ open' = NoFrame
       ELSE UNCHANGED <<ended_frames, open>>
    /\ UNCHANGED <<begun_frames, chunk_submissions, minted, lost, orphan, drawn>>

reset_counters ==
    /\ begun_frames' = 0 /\ chunk_submissions' = 0 /\ ended_frames' = 0
    /\ lost' = 0 /\ orphan' = OpenFrames /\ drawn' = 0
    /\ UNCHANGED <<minted, open>>

frames_in_flight ==
    IF begun_frames < ended_frames THEN 0 ELSE begun_frames - ended_frames

CounterNext ==
    \/ \E fails \in BOOLEAN : begin_frame(fails)
    \/ \E frame \in 1..minted, fails \in BOOLEAN :
          submit_chunk(frame, fails) \/ end_frame(frame, fails)
    \/ reset_counters

CounterSpec == CounterInit /\ [][CounterNext]_frames

---------------------------------------------------------------------------
(* Over begins that failed, frames given up, stale handles and a reset in *)
(* the middle of a frame, the counters and the frames differ by what these *)
(* account for: frames_in_flight is too high by the begins that no end   *)
(* will match, too low by the frame that was open at the reset.          *)
FramesAccounted ==
    /\ begun_frames + orphan = ended_frames + OpenFrames + lost
    /\ orphan = 0 => frames_in_flight = OpenFrames + lost
    /\ chunk_submissions = drawn

=============================================================================
