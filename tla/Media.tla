------------------------------- MODULE Media --------------------------------
(***************************************************************************)
(* apps/api/app/media: what ffprobe reports of a file, which of the three  *)
(* ways of producing a canonical MP4 is chosen, and what a normalization   *)
(* may hand to its caller.  ffmpeg and ffprobe are external programs.      *)
(***************************************************************************)

\* MediaProbe, as far as a decision looks at it.  `sound` stands for a video
\* codec, a duration, a width and a height that are all present and positive, and
\* "mp4" for the container family that ffprobe calls mov,mp4,...
Probe == [video : {"h264", "other"}, pixels : {"yuv420p", "other"},
          audio : SUBSET {"aac", "other"}, container : {"mp4", "other"},
          sound : BOOLEAN]

Strategies == {"passthrough", "remux", "transcode"}

\* The streams need no transcoding.
CanonicalStreams(p) ==
    p.video = "h264" /\ p.pixels = "yuv420p" /\ p.audio \subseteq {"aac"}

\* select_normalization_strategy, for a probe with the required metadata.
Strategy(p) ==
    IF ~CanonicalStreams(p) THEN "transcode"
    ELSE IF p.container = "mp4" THEN "passthrough" ELSE "remux"

IsCanonicalMedia(p) == p.sound /\ Strategy(p) \in {"passthrough", "remux"}

\* ffmpeg exits with 0, but the file it left was cut short.
CutShort(p) == [p EXCEPT !.sound = FALSE]

\* What the commands of _run_normalization may leave in the temporary file: a
\* copy, the same streams in an MP4 container, or new streams.
Outputs(p) ==
    CASE Strategy(p) = "passthrough" -> {p}
      [] Strategy(p) = "remux" ->
           LET q == [p EXCEPT !.container = "mp4"] IN {q, CutShort(q)}
      [] Strategy(p) = "transcode" ->
           LET q == [p EXCEPT !.video = "h264", !.pixels = "yuv420p",
                              !.container = "mp4",
                              !.audio = IF p.audio = {} THEN {} ELSE {"aac"}]
           IN  {q, CutShort(q)}

\* The outputs _normalize_to_output moves to their destination: the source has
\* the required metadata, and what ffmpeg made of it passed the same test.
Normalized(p) == IF p.sound THEN {q \in Outputs(p) : IsCanonicalMedia(q)} ELSE {}
=============================================================================
