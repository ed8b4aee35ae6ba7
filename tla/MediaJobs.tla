----------------------------- MODULE MediaJobs -----------------------------
(***************************************************************************)
(* One job of a remote media provider: who waits for it, polls it and      *)
(* cancels it (media/manager.py); and one call of the tools that generate  *)
(* images and videos, from its arguments to its answer.                    *)
(*                                                                         *)
(* A job has two locks.  The one of the job is held while the provider is  *)
(* asked or told about it and the answer is saved; the one of completion   *)
(* by wait(), from the first look at the job until its artifacts are in    *)
(* the workspace.  Jobs share neither, so one job is modelled.             *)
(*                                                                         *)
(* An action runs from one await of the provider, the workspace, a lock or *)
(* a pause to the next.  The default store, a dictionary, never suspends.  *)
(***************************************************************************)
EXTENDS Integers, FiniteSets, TLC

CONSTANTS
    Waits,     \* calls of wait(), alone or as the end of a generate_*()
    Polls,     \* calls of poll()
    Revokes,   \* calls of cancel()
    Nobody

\* A wait() that is cancelled starts a cancel(), shielded from being cancelled
\* itself.
Undo(w) == <<w>>
Undos   == {Undo(w) : w \in Waits}
Pollers == Waits \cup Polls
Revokers == Revokes \cup Undos

ASSUME MediaAssumption == Nobody \notin Pollers \cup Revokers

VARIABLES
    jobStatus,  \* status of the record: none, open (pending or running) or terminal
    jobResult,  \* does the record have a result?
    jobLock,    \* who holds _job_locks[id]
    waitLock,   \* who holds _completion_locks[id]
    jobPC,      \* where each call is
    overdue     \* history: has a wait() timed out?

jobVars   == <<jobStatus, jobResult>>
lockVars  == <<jobLock, waitLock>>
mediaVars == <<jobVars, lockVars, jobPC, overdue>>

Ended == {"succeeded", "failed", "cancelled"}

MediaTypeOK ==
    /\ jobStatus \in {"none", "open"} \cup Ended
    /\ jobResult \in BOOLEAN
    /\ jobLock \in Pollers \cup Revokers \cup {Nobody}
    /\ waitLock \in Waits \cup {Nobody}
    /\ jobPC \in [Pollers \cup Revokers ->
                    {"idle", "loop", "asking", "stopping", "fetching", "undoing", "due", "revoking", "done"}]
    /\ overdue \in BOOLEAN

MediaInit ==
    /\ jobStatus = "none" /\ jobResult = FALSE
    /\ jobLock = Nobody /\ waitLock = Nobody
    /\ jobPC = [a \in Pollers \cup Revokers |-> "idle"]
    /\ overdue = FALSE

Moves(a, l) == jobPC' = [jobPC EXCEPT ![a] = l]

\* A wait() returns, or raises.
Quits(w) == Moves(w, "done") /\ waitLock' = Nobody

\* A job is what becomes of a submission that the provider made a task of; one
\* that is answered at once is stored without a job.
RecordSubmission == jobStatus' = "open"

Submit ==
    /\ jobStatus = "none"
    /\ RecordSubmission
    /\ UNCHANGED <<jobResult, lockVars, jobPC, overdue>>

-----------------------------------------------------------------------------
(***************************************************************************)
(* wait()                                                                  *)
(***************************************************************************)

\* Variant with a fault: nothing keeps two calls apart.
BeginWaitUnlocked(w) ==
    /\ jobPC[w] = "idle" /\ jobStatus # "none"
    /\ waitLock' = w
    /\ Moves(w, CASE jobStatus = "open" -> "loop"
                  [] jobStatus = "succeeded" /\ ~jobResult -> "fetching"
                  [] OTHER -> "done")
    /\ UNCHANGED <<jobVars, jobLock, overdue>>

\* A job that has its result, failed or was cancelled is answered for at once;
\* of one that has succeeded the artifacts are fetched.
BeginWait(w) ==
    /\ jobPC[w] = "idle" /\ jobStatus # "none"
    /\ waitLock = Nobody
    /\ \/ jobStatus = "open" /\ waitLock' = w /\ Moves(w, "loop")
       \/ jobStatus = "succeeded" /\ ~jobResult /\ waitLock' = w /\ Moves(w, "fetching")
       \/ jobStatus \in Ended /\ (jobStatus = "succeeded" => jobResult) /\ Quits(w)
    /\ UNCHANGED <<jobVars, jobLock, overdue>>

\* What _await_job does with a status that a poll has returned: it goes on to
\* the artifacts, raises, pauses, or has waited too long and tells the
\* provider to stop.
Decides(w, status) ==
    \/ status = "succeeded" /\ Moves(w, "fetching") /\ UNCHANGED waitLock
    \/ status \in {"failed", "cancelled"} /\ Quits(w)
    \/ status = "open" /\ Moves(w, "loop") /\ UNCHANGED waitLock
    \/ status = "open" /\ Moves(w, "stopping") /\ UNCHANGED waitLock

\* Where a poll goes when it returns.
Hands(a, status) == IF a \in Waits THEN Decides(a, status) ELSE Moves(a, "done") /\ UNCHANGED waitLock

\* The provider is told; the record as it was when the poll returned is saved
\* with the failure, and the lock of the job is not asked for.  A provider
\* that fails leaves the record alone.
GiveUpJob(w) ==
    /\ jobPC[w] = "stopping"
    /\ Quits(w)
    /\ \/ jobStatus' = "failed" /\ jobResult' = FALSE /\ overdue' = TRUE
       \/ UNCHANGED <<jobVars, overdue>>
    /\ UNCHANGED jobLock

\* _materialize, which may fail: then a later wait() tries again.
Fetch(w) ==
    /\ jobPC[w] = "fetching"
    /\ Quits(w)
    /\ jobResult' \in {TRUE, jobResult}
    /\ UNCHANGED <<jobStatus, jobLock, overdue>>

\* The task of a wait() is cancelled: the job is cancelled too, unless its
\* artifacts were being fetched.
InterruptWait(w) ==
    /\ jobPC[w] \in {"loop", "asking", "stopping"}
    /\ jobLock' = IF jobLock = w THEN Nobody ELSE jobLock
    /\ jobPC' = [jobPC EXCEPT ![w] = "undoing", ![Undo(w)] = "due"]
    /\ UNCHANGED <<jobVars, waitLock, overdue>>

InterruptFetch(w) ==
    /\ jobPC[w] \in {"fetching", "undoing"}
    /\ Quits(w)
    /\ UNCHANGED <<jobVars, jobLock, overdue>>

Undone(w) ==
    /\ jobPC[w] = "undoing" /\ jobPC[Undo(w)] = "done"
    /\ Quits(w)
    /\ UNCHANGED <<jobVars, jobLock, overdue>>

-----------------------------------------------------------------------------
(***************************************************************************)
(* poll() and cancel(): a job that has ended is returned as it is.         *)
(***************************************************************************)

MayPoll(a) == jobPC[a] = (IF a \in Waits THEN "loop" ELSE "idle")

Ask(a) ==
    /\ MayPoll(a) /\ jobStatus # "none" /\ jobLock = Nobody
    /\ \/ /\ jobStatus = "open"
          /\ jobLock' = a
          /\ Moves(a, "asking")
          /\ UNCHANGED waitLock
       \/ /\ jobStatus \in Ended
          /\ Hands(a, jobStatus)
          /\ UNCHANGED jobLock
    /\ UNCHANGED <<jobVars, overdue>>

\* The provider answers, with the state of the task or that it failed, which
\* is saved; or the request fails.
Answered(a) ==
    /\ jobPC[a] = "asking"
    /\ jobLock' = Nobody
    /\ \/ /\ jobStatus' \in {"open", "succeeded", "failed"} /\ jobResult' = FALSE
          /\ Hands(a, jobStatus')
       \/ /\ IF a \in Waits THEN Quits(a) ELSE Moves(a, "done") /\ UNCHANGED waitLock
          /\ UNCHANGED jobVars
    /\ UNCHANGED overdue

MayRevoke(a) == jobPC[a] = (IF a \in Undos THEN "due" ELSE "idle")

\* Variant with a fault: the job is looked at before the lock is had.
RevokeUnlocked(a) ==
    /\ MayRevoke(a) /\ jobStatus # "none"
    /\ Moves(a, IF jobStatus = "open" THEN "revoking" ELSE "done")
    /\ UNCHANGED <<jobVars, lockVars, overdue>>

Revoke(a) ==
    /\ MayRevoke(a) /\ jobStatus # "none" /\ jobLock = Nobody
    /\ \/ jobStatus = "open" /\ jobLock' = a /\ Moves(a, "revoking")
       \/ jobStatus # "open" /\ Moves(a, "done") /\ UNCHANGED jobLock
    /\ UNCHANGED <<jobVars, waitLock, overdue>>

Revoked(a) ==
    /\ jobPC[a] = "revoking"
    /\ jobLock' = IF jobLock = a THEN Nobody ELSE jobLock
    /\ Moves(a, "done")
    /\ \/ jobStatus' = "cancelled" /\ jobResult' = FALSE
       \/ UNCHANGED jobVars
    /\ UNCHANGED <<waitLock, overdue>>

WaitStep(w) == BeginWait(w) \/ GiveUpJob(w) \/ Fetch(w) \/ InterruptWait(w) \/ InterruptFetch(w) \/ Undone(w)

MediaNext ==
    \/ Submit
    \/ \E w \in Waits : WaitStep(w)
    \/ \E a \in Pollers : Ask(a) \/ Answered(a)
    \/ \E a \in Revokers : Revoke(a) \/ Revoked(a)

MediaSpec == MediaInit /\ [][MediaNext]_mediaVars

-----------------------------------------------------------------------------
(***************************************************************************)
(* Properties.                                                             *)
(***************************************************************************)

\* The end of a job is final, whoever waits, polls or cancels at the same
\* time, up to a wait() that times out: its failure is saved without the lock
\* and takes the place of an end another call has seen, or is itself replaced
\* by what a poll or a cancel that was under way saves.
JobIsFinal ==
    jobStatus \in Ended /\ jobStatus' # jobStatus => overdue' /\ "failed" \in {jobStatus, jobStatus'}

\* The artifacts are brought into the workspace by one call at a time, and
\* not again once the record has them; the record that has them says that
\* the job succeeded, also after a time-out.
FetchedOnce ==
    /\ \A w, v \in Waits : jobPC[w] = "fetching" /\ jobPC[v] = "fetching" => w = v
    /\ jobResult => jobStatus = "succeeded" /\ \A w \in Waits : jobPC[w] # "fetching"

\* A job ends once and is fetched once, whoever waits, polls or cancels.
JobsSettle == [][FetchedOnce' /\ JobIsFinal]_mediaVars

-----------------------------------------------------------------------------
(***************************************************************************)
(* One call of generate_image() or generate_video(): what the adapter of   *)
(* a provider sends, what the service makes of it, and what the model is   *)
(* told (builtin/tools/media_generation.py; artifacts.py, base.py, http.py *)
(* and providers/ of media).                                               *)
(*                                                                         *)
(* A request has at most one reference image besides the two frames.  Of   *)
(* an answer that is an error it matters which of the families of words    *)
(* that classified_provider_error() looks for are found in it.  The        *)
(* service (external) takes a request or refuses it, and an answer may be  *)
(* lost, cut off or replaced by one of a gateway.                          *)
(***************************************************************************)
CONSTANTS
    GenRequests,  \* [model, prompt, amount, first, last, ref, seed, audio, size, key]
    RepliesDrawn,   \* errors: [status, says, ids], ids being what is found in the id of a task
    NoMedia, NoReply

VARIABLES
    genRequest,  \* the request, and the model it is for
    genCall,     \* where the call is and what it answers: [at, code, safe, retry, task]
    genTask,     \* at the service: none, busy, ready, broken or stopped
    genSent,     \* what the service has taken
    genReply,    \* history: the error that was told last
    genNotes     \* history: what went wrong

genVars == <<genRequest, genCall, genTask, genSent, genReply, genNotes>>

ImageModels == {"seedream-4", "seedream-5", "qwen-image", "wan-t2i", "wan-plain", "image-01"}
VideoModels == {"seedance", "wan3", "wan-i2v", "wan-r2v", "wan-t2v", "H3", "H3-Max"}
Ark         == {"seedream-4", "seedream-5", "seedance"}
DashScope   == {"qwen-image", "wan-t2i", "wan-plain", "wan3", "wan-i2v", "wan-r2v", "wan-t2v"}
MiniMax     == {"image-01", "H3", "H3-Max"}

\* Models that answer with the images themselves.
Synchronous == ImageModels \ {"wan-plain"}

GenTypeOK ==
    /\ genRequest.model \in ImageModels \cup VideoModels
    /\ genCall.at \in {"start", "asking", "waiting", "stopping", "fetching", "answered", "raised", "cut"}
    /\ genTask \in {"none", "busy", "ready", "broken", "stopped"}
    /\ genNotes \subseteq {"lost", "garbled", "misled", "abandoned", "unstopped", "misread"}

-----------------------------------------------------------------------------
\* What the arguments may be: the seconds of a video, the number of images.
InBounds(r) == r.amount \in (IF r.model \in VideoModels THEN 4..15 ELSE 1..4)

Roles    == <<"first", "last", "ref">>
MediaGiven(r) == {Roles[i] : i \in {j \in 1..3 : r[Roles[j]] # NoMedia}}

\* Variant with a fault: a file is sent as the path that it is.
NormalizedAsIs(ref) == ref

\* A file of the workspace is sent as its contents.
Normalized(ref) == IF ref = "file" THEN "data" ELSE ref

\* The first of the references that cannot be sent decides.
Rejection(r) ==
    LET bad == {i \in 1..3 : r[Roles[i]] \in {"blank", "gone"}}
        one == r[Roles[CHOOSE i \in bad : \A j \in bad : i <= j]]
    IN CASE ~InBounds(r) \/ r.prompt = "blank" -> "invalid_request"
         [] bad # {} -> IF one = "gone" THEN "reference_not_found" ELSE "invalid_request"
         [] OTHER -> "none"

\* The requests that an adapter refuses for its model.
ArkRefuses(r) == FALSE

WanImageRefuses(r) == r.model \in {"wan-t2i", "wan-plain"} /\ r.ref # NoMedia

\* Variant with a fault: a reference to video takes whatever comes.
WanVideoRefusesLess(r) ==
    \/ r.model = "wan-i2v" /\ (r.ref # NoMedia \/ r.first = NoMedia)
    \/ r.model = "wan-t2v" /\ MediaGiven(r) # {}

WanVideoRefuses(r) ==
    \/ r.model = "wan-i2v" /\ (r.ref # NoMedia \/ r.first = NoMedia)
    \/ r.model = "wan-r2v" /\ (r.last # NoMedia \/ MediaGiven(r) = {})
    \/ r.model = "wan-t2v" /\ MediaGiven(r) # {}

MiniImageRefuses(r) == r.model = "image-01" /\ r.size = "other"

MiniResolution(m) == IF m = "H3-Max" THEN {"480p", "720p"} ELSE {"720p", "1080p"}

MiniVideoRefuses(r) ==
    /\ r.model \in {"H3", "H3-Max"}
    /\ \/ r.seed
       \/ r.ref # NoMedia /\ MediaGiven(r) # {"ref"}
       \/ r.model = "H3-Max" /\ r.amount < 5
       \/ r.size \notin MiniResolution(r.model)

Refuses(r) == ArkRefuses(r) \/ WanImageRefuses(r) \/ WanVideoRefuses(r) \/ MiniImageRefuses(r) \/ MiniVideoRefuses(r)

\* The media that the body of a request has a place for.
WanCarries(r) == CASE r.model = "wan-i2v" -> {"first", "last"}
                   [] r.model = "wan-r2v" -> {"first", "ref"}
                   [] r.model \in {"wan-t2i", "wan-plain", "wan-t2v"} -> {}
                   [] OTHER -> {"first", "last", "ref"}
Carries(r) == IF r.model \in DashScope THEN WanCarries(r) ELSE {"first", "last", "ref"}

\* Undersized images are made larger by Seedream 5.
ArkSize(r) == IF r.model = "seedream-5" /\ r.size \in {"none", "small"} THEN "2K" ELSE r.size

SpeaksAloud(m) == m \in {"seedance", "wan3"}

Body(r) == [media |-> {<<k, Normalized(r[k])>> : k \in MediaGiven(r) \cap Carries(r)},
            seed  |-> r.seed,
            audio |-> r.audio /\ SpeaksAloud(r.model),
            size  |-> ArkSize(r)]

-----------------------------------------------------------------------------
\* classified_provider_error(): the families in the order they are looked for.
Families == <<"key", "content", "rate", "quota", "access", "outage">>

StatusSays(s) ==
    CASE s = 401 -> {"key"} [] s = 422 -> {"content"} [] s = 429 -> {"rate"} [] s = 402 -> {"quota"}
      [] s \in {403, 404} -> {"access"} [] s >= 500 -> {"outage"} [] OTHER -> {}

\* The words of an error that gives neither a code nor a message are those of
\* the fallback, which has the id of the task in it.
PayloadSays(reply, fallback) == reply.says \cup (IF fallback THEN reply.ids ELSE {})
Heard(reply, fallback) == StatusSays(reply.status) \cup PayloadSays(reply, fallback)

CodeOf(f, s) ==
    CASE f = "key" -> "credential_invalid" [] f = "content" -> "content_rejected" [] f = "rate" -> "rate_limited"
      [] f = "quota" -> "quota_exhausted" [] f = "outage" -> "provider_unavailable"
      [] f = "access" -> IF s = 403 THEN "model_access_required" ELSE "model_not_found"
      [] OTHER -> "provider_error"

\* Variant with a fault: limits are looked for before rejections.
FirstHeardLate(heard) ==
    LET order == <<"key", "rate", "content", "quota", "access", "outage">>
        at    == {i \in 1..6 : order[i] \in heard}
    IN IF at = {} THEN "other" ELSE order[CHOOSE i \in at : \A j \in at : i <= j]

FirstHeard(heard) ==
    LET at == {i \in 1..6 : Families[i] \in heard}
    IN IF at = {} THEN "other" ELSE Families[CHOOSE i \in at : \A j \in at : i <= j]

\* An error as the model is told it: MediaGenerationError and its envelope.
AnswerIs(code, safe, retry, task) == [at |-> "answered", code |-> code, safe |-> safe, retry |-> retry, task |-> task]

\* Variant with a fault: a request may be sent again whatever it was about.
ClassifiedAnyway(heard, s, task) ==
    LET f == FirstHeard(heard)
    IN AnswerIs(CodeOf(f, s), f \in {"rate", "outage"}, f \in {"rate", "outage"}, task)

Classified(heard, s, task) ==
    LET f == FirstHeard(heard)
    IN AnswerIs(CodeOf(f, s), f \in {"rate", "outage"} /\ ~task, f \in {"rate", "outage"}, task)

-----------------------------------------------------------------------------
GenInit ==
    /\ genRequest \in GenRequests
    /\ genCall = [AnswerIs("none", FALSE, FALSE, FALSE) EXCEPT !.at = "start"]
    /\ genTask = "none" /\ genSent = NoReply /\ genReply = NoReply /\ genNotes = {}

CallGoes(at) == genCall' = [genCall EXCEPT !.at = at]

\* The credential is looked for when the first request is made.
Keyless(r) == ~r.key

\* Before anything is sent: the arguments, the references, what the model
\* takes, and then the credential.
Reject ==
    /\ genCall.at = "start"
    /\ genCall' = LET why == Rejection(genRequest) IN
         CASE why # "none" -> AnswerIs(why, why = "invalid_request", FALSE, FALSE)
           [] Refuses(genRequest) -> AnswerIs("unsupported_input", TRUE, FALSE, FALSE)
           [] Keyless(genRequest) -> AnswerIs("credential_missing", FALSE, FALSE, FALSE)
           [] OTHER -> [genCall EXCEPT !.at = "asking"]
    /\ UNCHANGED <<genRequest, genTask, genSent, genReply, genNotes>>

\* The service takes the request.
Taken == genTask' = (IF genRequest.model \in Synchronous THEN "ready" ELSE "busy") /\ genSent' = Body(genRequest)
NotTaken == UNCHANGED <<genTask, genSent>>

\* The answer is read: a task, or images; or it has neither.
Accepted ==
    /\ genCall.at = "asking"
    /\ Taken
    /\ \/ CallGoes(IF genRequest.model \in Synchronous THEN "fetching" ELSE "waiting") /\ UNCHANGED genNotes
       \/ /\ \E code \in {"provider_error", "provider_response_invalid"} : genCall' = AnswerIs(code, FALSE, FALSE, FALSE)
          /\ genNotes' = genNotes \cup {"garbled"}
    /\ UNCHANGED <<genRequest, genReply>>

\* The request fails on its way there or back.
Unanswered ==
    /\ genCall.at = "asking"
    /\ \/ Taken /\ genNotes' = genNotes \cup {"lost"}
       \/ NotTaken /\ UNCHANGED genNotes
    /\ \E code \in {"provider_timeout", "provider_unavailable"} : genCall' = AnswerIs(code, FALSE, TRUE, FALSE)
    /\ UNCHANGED <<genRequest, genReply>>

\* The answer is an error, of the service or of one in between.
ServiceRefuses ==
    /\ genCall.at = "asking"
    /\ \E reply \in RepliesDrawn :
         /\ genReply' = reply
         /\ genCall' = Classified(Heard(reply, FALSE), reply.status, FALSE)
    /\ \/ NotTaken /\ UNCHANGED genNotes
       \/ Taken /\ genNotes' = genNotes \cup {"misled"}
    /\ UNCHANGED genRequest

\* The service (external).
ServiceGoesOn ==
    /\ genTask = "busy"
    /\ genTask' \in {"ready", "broken", "stopped"}
    /\ UNCHANGED <<genRequest, genCall, genSent, genReply, genNotes>>

\* A poll that does not get through ends the call, and the task goes on.
PollFails ==
    /\ genCall.at = "waiting"
    /\ \/ /\ \E code \in {"provider_timeout", "provider_unavailable"} : genCall' = AnswerIs(code, FALSE, TRUE, TRUE)
          /\ genNotes' = genNotes \cup {"abandoned"} /\ UNCHANGED genReply
       \/ \E reply \in RepliesDrawn :
            /\ genReply' = reply
            /\ genCall' = Classified(Heard(reply, FALSE), reply.status, TRUE)
            /\ genNotes' = genNotes \cup {"abandoned"}
       \/ /\ \E code \in {"provider_error", "provider_response_invalid"} : genCall' = AnswerIs(code, FALSE, FALSE, FALSE)
          /\ genNotes' = genNotes \cup {"garbled"} /\ UNCHANGED genReply
    /\ UNCHANGED <<genRequest, genTask, genSent>>

\* A poll that does: the call goes on while the task is under way, up to the
\* deadline, which is looked at after a poll.
PollTells ==
    /\ genCall.at = "waiting"
    /\ \/ genTask = "busy" /\ CallGoes("stopping")
       \/ genTask = "ready" /\ CallGoes("fetching")
    /\ UNCHANGED <<genRequest, genTask, genSent, genReply, genNotes>>

\* The task has failed, or was cancelled by somebody else, which DashScope's
\* adapter tells as a failure.
PollEnds ==
    /\ genCall.at = "waiting" /\ genTask \in {"broken", "stopped"}
    /\ \E reply \in {e \in RepliesDrawn : e.status = 200} :
         /\ genReply' = reply
         /\ LET told == Classified(Heard(reply, TRUE), 200, TRUE) IN
            genCall' = IF genTask = "stopped" /\ genRequest.model \notin DashScope
                       THEN [told EXCEPT !.code = "generation_cancelled"] ELSE told
    /\ UNCHANGED <<genRequest, genTask, genSent, genNotes>>

\* Ark is told to stop, which may not get there; the others know no such request.
Stopped ==
    \/ genRequest.model \in Ark /\ genTask' = (IF genTask = "busy" THEN "stopped" ELSE genTask) /\ UNCHANGED genNotes
    \/ genNotes' = genNotes \cup {"unstopped"} /\ UNCHANGED genTask

TimesOut ==
    /\ genCall.at = "stopping"
    /\ Stopped
    /\ genCall' = AnswerIs("provider_timeout", FALSE, TRUE, TRUE)
    /\ UNCHANGED <<genRequest, genSent, genReply>>

\* Variant with a fault: nobody tells the service.
InterruptedQuietly ==
    /\ genCall.at \in {"waiting", "stopping"}
    /\ CallGoes("cut")
    /\ UNCHANGED <<genRequest, genTask, genSent, genReply, genNotes>>

\* The task of the call is cancelled while it waits ...
Interrupted ==
    /\ genCall.at \in {"waiting", "stopping"}
    /\ Stopped
    /\ CallGoes("cut")
    /\ UNCHANGED <<genRequest, genSent, genReply>>

\* ... and before it knows of a task, or when it fetches what there is.
InterruptedElsewhere ==
    /\ \/ genCall.at = "asking" /\ Taken /\ genNotes' = genNotes \cup {"lost"}
       \/ genCall.at \in {"asking", "fetching"} /\ NotTaken /\ UNCHANGED genNotes
    /\ CallGoes("cut")
    /\ UNCHANGED <<genRequest, genReply>>

\* Downloads carry no credential and are not tried again; an error of them
\* does not name the task.
DownloadFails ==
    /\ genCall.at = "fetching"
    /\ \E code \in {"provider_timeout", "provider_unavailable", "download_failed", "provider_error"} :
         \E retry \in (IF code = "provider_error" THEN {FALSE} ELSE {TRUE, FALSE}) :
           genCall' = AnswerIs(code, FALSE, retry, FALSE)
    /\ UNCHANGED <<genRequest, genTask, genSent, genReply, genNotes>>

\* The envelope of a result.
Completed == AnswerIs("ok", FALSE, FALSE, FALSE)

\* Everything is in the workspace; or it could not be written, which the tool
\* does not turn into an answer.
ArtifactsStored ==
    /\ genCall.at = "fetching"
    /\ genCall' = Completed \/ CallGoes("raised")
    /\ UNCHANGED <<genRequest, genTask, genSent, genReply, genNotes>>

\* A ValueError came up, such as that of an address that urlsplit() cannot take
\* apart: the tool reads it as one of the request.
TakenForRequest ==
    /\ genCall.at = "fetching"
    /\ genCall' = AnswerIs("invalid_request", TRUE, FALSE, FALSE)
    /\ genNotes' = genNotes \cup {"misread"}
    /\ UNCHANGED <<genRequest, genTask, genSent, genReply>>

GenNext ==
    \/ Reject \/ Accepted \/ Unanswered \/ ServiceRefuses \/ ServiceGoesOn
    \/ PollFails \/ PollTells \/ PollEnds \/ TimesOut \/ Interrupted \/ InterruptedElsewhere
    \/ DownloadFails \/ ArtifactsStored \/ TakenForRequest

-----------------------------------------------------------------------------
\* The model is told that it may call again only when the service has taken
\* nothing, so that nothing is paid for twice; unless the service took the
\* request and an error came back all the same.
ResubmitIsSafe == genCall.safe => genTask = "none" \/ genNotes \cap {"misled", "misread"} # {}

\* What the service takes has all that the request gave it, files as their
\* contents: no frame, reference or seed is dropped without a word.  Sound is,
\* by the models that are mute, and Seedream 5 chooses the size of small images.
RequestsArrive ==
    genTask # "none" =>
      /\ genSent.media = {<<k, IF genRequest[k] = "file" THEN "data" ELSE genRequest[k]>> : k \in MediaGiven(genRequest)}
      /\ genSent.seed = genRequest.seed
      /\ genRequest.audio => genSent.audio \/ ~SpeaksAloud(genRequest.model)
      /\ genSent.size # genRequest.size => genRequest.model = "seedream-5"

\* What is refused can be had without the media and the seed, in 720p, unless
\* the model is one that animates images.
RefusalsHelp ==
    genCall.code = "unsupported_input" =>
      \/ genRequest.model \in {"wan-i2v", "wan-r2v"}
      \/ ~Refuses([genRequest EXCEPT !.first = NoMedia, !.last = NoMedia, !.ref = NoMedia, !.seed = FALSE,
                                     !.amount = IF genRequest.model \in VideoModels THEN 5 ELSE @,
                                     !.size = IF genRequest.model \in VideoModels THEN "720p" ELSE "none"])

\* When a call is over, no task goes on that nobody waits for, unless its id
\* was never heard, a poll has failed, or the service was not told or does not
\* take such a request.
NoTaskIsLeft ==
    genCall.at \in {"answered", "raised", "cut"} /\ genTask = "busy" =>
      genNotes \cap {"lost", "garbled", "misled", "abandoned", "unstopped"} # {}

\* An error of a task that may still go on names it.
TaskIsTold ==
    genCall.at = "answered" /\ genTask = "busy" => genCall.task \/ genNotes \cap {"lost", "garbled", "misled"} # {}

\* A rejection of the content is told as one, whatever else the answer says,
\* so that nobody tries elsewhere; an answer that says one thing is told as
\* that; and a call is worth repeating only for limits and outages.  An answer
\* that says nothing is taken for whatever the id of its task looks like.
ErrorsAreMeant ==
    genCall.at = "answered" /\ genReply # NoReply /\ genCall.code # "generation_cancelled" =>
      LET said == StatusSays(genReply.status) \cup genReply.says IN
      \/ genReply.ids # {}
      \/ /\ "content" \in said /\ "key" \notin said => genCall.code = "content_rejected"
         /\ \A f \in said : said = {f} => genCall.code = CodeOf(f, genReply.status)
         /\ genCall.retry => said \cap {"rate", "outage"} # {} /\ "content" \notin said

\* A call of a media tool sends what was asked for, is answered for what the
\* service said, leaves no task behind and is repeated only when nothing runs.
GenerationHolds ==
    /\ ResubmitIsSafe
    /\ RequestsArrive
    /\ RefusalsHelp
    /\ NoTaskIsLeft
    /\ TaskIsTold
    /\ ErrorsAreMeant

-----------------------------------------------------------------------------
(***************************************************************************)
(* Images and sounds in the messages of a thread                           *)
(* (middleware/media_offload.py).                                          *)
(*                                                                         *)
(* Before each request to the model the middleware walks over the blocks   *)
(* of all messages: one that carries its bytes is uploaded under the hash  *)
(* of the bytes and marked, one that is marked already is replaced by a    *)
(* line of text that names the file.  The request may fail after that, and *)
(* an upload may fail and leave its block as it is.                        *)
(***************************************************************************)
CONSTANTS
    Blocks,     \* blocks of media that users and tools bring into the thread
    SmallOnes,  \* those below min_bytes, and those in a form that is left alone
    ShaOf,      \* the file a block is uploaded to: the hash of its bytes
    MaxTurns,   \* bound: turns
    MaxRounds   \* bound: requests of a turn

ASSUME MediaOffloadAssumption ==
    /\ IsFiniteSet(Blocks) /\ SmallOnes \subseteq Blocks /\ DOMAIN ShaOf = Blocks
    /\ MaxTurns \in Nat /\ MaxRounds \in Nat

VARIABLES
    block,     \* form of a block: "absent", "inline", "marked" or "text"
    cacheDir,  \* files that were uploaded
    round,     \* where the turn is, and its number of requests
    turnCount, \* turns so far
    sent,      \* history: requests that carried the bytes of a block
    shown,     \* history: blocks whose bytes were in a request that was answered
    unshown,   \* history: blocks whose bytes were in a request that was not
    unsaved    \* history: uploads of a block that failed

offloadVars == <<block, cacheDir, round, turnCount, sent, shown, unshown, unsaved>>

Carried == {b \in Blocks : block[b] \in {"inline", "marked"}}

OffloadInit ==
    /\ block = [b \in Blocks |-> "absent"] /\ cacheDir = {}
    /\ round = [at |-> "none", requests |-> 0] /\ turnCount = 0
    /\ sent = [b \in Blocks |-> 0] /\ shown = {} /\ unshown = {}
    /\ unsaved = [b \in Blocks |-> 0]

\* The user's message, or the results of the tools, bring blocks.
Bring ==
    /\ \/ round.at = "none" /\ turnCount < MaxTurns /\ turnCount' = turnCount + 1
          /\ round' = [at |-> "ready", requests |-> 0]
       \/ round.at = "answered" /\ round.requests < MaxRounds /\ UNCHANGED turnCount
          /\ round' = [round EXCEPT !.at = "ready"]
    /\ \E new \in SUBSET {b \in Blocks : block[b] = "absent"} :
         block' = [b \in Blocks |-> IF b \in new THEN "inline" ELSE block[b]]
    /\ UNCHANGED <<cacheDir, sent, shown, unshown, unsaved>>

\* Variant with a fault: a failed upload is not noticed.
MarkedAnyway(b, failed) ==
    CASE block[b] = "marked" -> "text"
      [] block[b] = "inline" /\ b \notin SmallOnes -> "marked"
      [] OTHER -> block[b]

\* _maybe_offload
Offloaded(b, failed) ==
    CASE block[b] = "marked" -> "text"
      [] block[b] = "inline" /\ b \notin SmallOnes \cup failed -> "marked"
      [] OTHER -> block[b]

\* before_model, and the request goes out.
BeforeRequest ==
    /\ round.at = "ready"
    /\ LET due == {b \in Blocks : block[b] = "inline"} \ SmallOnes
       IN \E failed \in SUBSET due :
            /\ block' = [b \in Blocks |-> Offloaded(b, failed)]
            /\ cacheDir' = cacheDir \cup {ShaOf[b] : b \in due \ failed}
            /\ unsaved' = [b \in Blocks |-> unsaved[b] + IF b \in failed THEN 1 ELSE 0]
    /\ sent' = [b \in Blocks |-> sent[b] + IF block'[b] \in {"inline", "marked"} THEN 1 ELSE 0]
    /\ round' = [at |-> "asked", requests |-> round.requests + 1]
    /\ UNCHANGED <<turnCount, shown, unshown>>

RequestAnswered ==
    /\ round.at = "asked"
    /\ shown' = shown \cup Carried
    /\ round' = [round EXCEPT !.at = "answered"]
    /\ UNCHANGED <<block, cacheDir, turnCount, sent, unshown, unsaved>>

\* The request fails, or the turn is cancelled: the marks are in the state.
RequestFails ==
    /\ round.at = "asked"
    /\ unshown' = unshown \cup Carried
    /\ round' = [round EXCEPT !.at = "none"]
    /\ UNCHANGED <<block, cacheDir, turnCount, sent, shown, unsaved>>

TurnEnds ==
    /\ round.at = "answered"
    /\ round' = [round EXCEPT !.at = "none"]
    /\ UNCHANGED <<block, cacheDir, turnCount, sent, shown, unshown, unsaved>>

OffloadNext == Bring \/ BeforeRequest \/ RequestAnswered \/ RequestFails \/ TurnEnds
OffloadSpec == OffloadInit /\ [][OffloadNext]_offloadVars

-----------------------------------------------------------------------------
OffloadTypeOK ==
    /\ block \in [Blocks -> {"absent", "inline", "marked", "text"}]
    /\ cacheDir \subseteq {ShaOf[b] : b \in Blocks}
    /\ round.at \in {"none", "ready", "asked", "answered"} /\ round.requests \in 0..MaxRounds
    /\ turnCount \in 0..MaxTurns /\ sent \in [Blocks -> Nat] /\ unsaved \in [Blocks -> Nat]
    /\ shown \cup unshown \subseteq Blocks

\* The bytes of a block are not unshown: what is marked, or a line of text, was
\* uploaded, whoever brought the same bytes first.
BytesAreKept == \A b \in Blocks : block[b] \in {"marked", "text"} => ShaOf[b] \in cacheDir

\* "the model sees the original bytes this turn": once, in the first request;
\* not at all when that request is the one that fails.
SeenFirst == \A b \in Blocks : block[b] = "text" => b \in shown \cup unshown

\* The bytes of a large block travel in one request, and one more for each
\* upload that failed.
SentOnce == \A b \in Blocks \ SmallOnes : sent[b] <= 1 + unsaved[b]

MediaOffloads == BytesAreKept /\ SeenFirst /\ SentOnce
=============================================================================
