--------------------------- MODULE VideoPipeline ---------------------------
(***************************************************************************)
(* One video asset and the pipelines that process it: POST /videos starts  *)
(* the first, every POST /videos/:id/transcode another, whether or not one *)
(* is running.  A pipeline is a promise nobody awaits, in the memory of    *)
(* one process: nothing resumes it when the process dies.  The renditions, *)
(* the captions and their editing are left out: no step depends on them.   *)
(***************************************************************************)
EXTENDS Integers, Sequences

CONSTANTS
  Pipelines,    \* pipelines of the asset in flight at once
  VideoTiers,   \* the tiers the tenant may have
  MaxPipelines  \* pipelines the asset ever gets

ASSUME VideoAssumption == VideoTiers \subseteq {"pool", "silo"} /\ MaxPipelines \in Nat

VARIABLES
  videoTier,    \* of the tenant
  videoStatus,  \* none until the asset is created
  videoEvents,  \* the asset's events in event_outbox, in the order they committed
  pipelinePc,   \* per pipeline: idle, start, process, finish, announceReady, fail, announceFailed
  started,      \* pipelines so far
  mixed,        \* history: two pipelines ran at once since the asset was last at rest
  abandoned     \* history: since the last outcome was written, a pipeline died or
                \* could not record its failure

videoVars == <<videoTier, videoStatus, videoEvents, pipelinePc, started, mixed, abandoned>>

VideoInit ==
  /\ videoTier \in VideoTiers
  /\ videoStatus = "none"
  /\ videoEvents = << >>
  /\ pipelinePc = [p \in Pipelines |-> "idle"]
  /\ started = 0
  /\ mixed = FALSE
  /\ abandoned = FALSE

VideoAtRest == \A p \in Pipelines : pipelinePc[p] = "idle"

PipelineGoto(p, step) == pipelinePc' = [pipelinePc EXCEPT ![p] = step]

-----------------------------------------------------------------------------
\* POST /videos creates the asset, POST /videos/:id/transcode finds it, in any
\* status: either way the pipeline runs on its own from here.
StartPipeline(p) ==
  /\ pipelinePc[p] = "idle" /\ started < MaxPipelines
  /\ started' = started + 1
  /\ videoStatus' = IF videoStatus = "none" THEN "uploaded" ELSE videoStatus
  /\ mixed' = ~VideoAtRest
  /\ PipelineGoto(p, "start")
  /\ UNCHANGED <<videoTier, videoEvents, abandoned>>

(* runPipeline *)

\* setStatus(transcoding), whatever the status was.
SetTranscoding(p) ==
  /\ pipelinePc[p] = "start"
  /\ videoStatus' = "transcoding"
  /\ PipelineGoto(p, "process")
  /\ UNCHANGED <<videoTier, videoEvents, started, mixed, abandoned>>

\* Transcoder and captioner, and setCaptions.
Process(p) ==
  /\ pipelinePc[p] = "process"
  /\ PipelineGoto(p, "finish")
  /\ UNCHANGED <<videoTier, videoStatus, videoEvents, started, mixed, abandoned>>

\* A status and its event: one transaction on the pool tier, two on the silo tier.
Conclude(p, status, announce) ==
  /\ videoStatus' = status
  /\ abandoned' = FALSE
  /\ \/ /\ videoTier = "pool"
        /\ videoEvents' = Append(videoEvents, status)
        /\ PipelineGoto(p, "idle")
     \/ videoTier = "silo" /\ PipelineGoto(p, announce) /\ UNCHANGED videoEvents
  /\ UNCHANGED <<videoTier, started, mixed>>

Announce(p, status) ==
  /\ videoEvents' = Append(videoEvents, status)
  /\ PipelineGoto(p, "idle")
  /\ UNCHANGED <<videoTier, videoStatus, started, mixed, abandoned>>

\* setRenditionsAndDuration
MarkReady(p) == pipelinePc[p] = "finish" /\ Conclude(p, "ready", "announceReady")
AnnounceReady(p) == pipelinePc[p] = "announceReady" /\ Announce(p, "ready")

\* mutant: the status alone, as setStatus(failed) would.
MarkFailedSilently(p) ==
  /\ pipelinePc[p] = "fail"
  /\ videoStatus' = "failed"
  /\ abandoned' = FALSE
  /\ PipelineGoto(p, "idle")
  /\ UNCHANGED <<videoTier, videoEvents, started, mixed>>

MarkFailed(p) == pipelinePc[p] = "fail" /\ Conclude(p, "failed", "announceFailed")
AnnounceFailed(p) == pipelinePc[p] = "announceFailed" /\ Announce(p, "failed")

\* The steps inside the try, the silo tier's second statement included.
Trying == {"start", "process", "finish", "announceReady"}

\* mutant: the error is logged and that is all.
ThrowIsLogged(p) ==
  /\ pipelinePc[p] \in Trying
  /\ PipelineGoto(p, "idle")
  /\ UNCHANGED <<videoTier, videoStatus, videoEvents, started, mixed, abandoned>>

\* Anything that throws is caught and goes to markFailed.
Throw(p) ==
  /\ pipelinePc[p] \in Trying
  /\ PipelineGoto(p, "fail")
  /\ UNCHANGED <<videoTier, videoStatus, videoEvents, started, mixed, abandoned>>

\* The process dies, or markFailed throws too and its error is swallowed.
Abandon(p) ==
  /\ pipelinePc[p] # "idle"
  /\ abandoned' = TRUE
  /\ PipelineGoto(p, "idle")
  /\ UNCHANGED <<videoTier, videoStatus, videoEvents, started, mixed>>

PipelineStep(p) ==
  \/ SetTranscoding(p) \/ Process(p)
  \/ MarkReady(p) \/ AnnounceReady(p) \/ MarkFailed(p) \/ AnnounceFailed(p)

VideoNext == \E p \in Pipelines :
  StartPipeline(p) \/ PipelineStep(p) \/ Throw(p) \/ Abandon(p)

VideoSpec == VideoInit /\ [][VideoNext]_videoVars /\ \A p \in Pipelines : WF_videoVars(PipelineStep(p))

-----------------------------------------------------------------------------
VideoTypeOK ==
  /\ videoTier \in VideoTiers
  /\ videoStatus \in {"none", "uploaded", "transcoding", "ready", "failed"}
  /\ videoEvents \in Seq({"ready", "failed"})
  /\ pipelinePc \in [Pipelines ->
       {"idle", "start", "process", "finish", "announceReady", "fail", "announceFailed"}]
  /\ started \in 0..MaxPipelines
  /\ mixed \in BOOLEAN /\ abandoned \in BOOLEAN

\* At rest the status is an outcome and it is the last one that was announced,
\* whatever was re-run, threw or overlapped: unless a pipeline was
\* abandoned since or, on the silo tier, two ran at once.
StatusAnnounced ==
  VideoAtRest /\ videoStatus # "none" /\ ~abandoned /\ (videoTier = "silo" => ~mixed) =>
    /\ videoEvents # << >>
    /\ videoStatus = videoEvents[Len(videoEvents)]

\* An asset does not stay transcoding: a pipeline concludes, if it is not abandoned.
TranscodingEnds == videoStatus = "transcoding" ~> (videoStatus # "transcoding" \/ abandoned)
=============================================================================
