-------------------------- MODULE RemoteDesktopFiles --------------------------
(***************************************************************************)
(* The file library of a Remote Desktop session: requests of the browser,  *)
(* uploads and downloads over HTTP, the file channel with its handlers     *)
(* (routers/remote_desktop_v2.py), and the agent with its file area        *)
(* (remote_desktop_agent.py, remote_desktop_files.py).                     *)
(*                                                                         *)
(* An answer names a transfer, but no request: the backend gives the       *)
(* result of an operation to the request that waits the longest.           *)
(***************************************************************************)
EXTENDS Naturals, Sequences, SequencesExt, FiniteSets

CONSTANTS
  FiKinds,       \* bound: the kinds of request made
  FiMaxRequests, \* bound on requests
  FiMaxConns,    \* bound on file channels
  FiChunks,      \* the chunks of a file
  FiMaxTries     \* names tried for an upload (101)

ASSUME FiAssumption ==
  /\ FiKinds \subseteq {"list", "change", "move", "upload", "download"}
  /\ {FiMaxRequests, FiMaxConns, FiChunks, FiMaxTries} \subseteq Nat \ {0}

VARIABLES
  fiBrowser,   \* whether the session is in BROWSERS
  fiKind,      \* the kind of each request
  fiShown,     \* what each request was told, and on account of what
  fiFiles,     \* the registered channel of FILE_AGENTS, 0 for none
  fiHandlers,  \* the channels whose handler runs
  fiConns,     \* the number of channels there have been
  fiLink,      \* the agent's channel, 0 for none
  fiDown,      \* messages on their way to the agent
  fiUp,        \* answers on their way, by channel
  fiExpect,    \* OPERATION_EXPECTATIONS of the session
  fiUpload,    \* the upload in progress
  fiDownloads, \* DOWNLOADS: chunks received, by request
  fiReady,     \* TRANSFERS
  fiSession,   \* whether the agent has the session among its file_sessions
  fiStaged,    \* the agent's uploads: chunks received, by request
  fiDone       \* requests that the agent has carried out

fivars == <<fiBrowser, fiKind, fiShown, fiFiles, fiHandlers, fiConns, fiLink, fiDown, fiUp,
            fiExpect, fiUpload, fiDownloads, fiReady, fiSession, fiStaged, fiDone>>
fibackend == <<fiBrowser, fiKind, fiShown, fiFiles, fiHandlers, fiConns, fiExpect, fiUpload,
               fiDownloads, fiReady>>

Nothing == [x \in {} |-> 0]
Idle == [r |-> 0, step |-> "idle", at |-> 0, tries |-> 0, over |-> 0, acks |-> <<>>]
Shown == {"nothing", "ok", "failed", "channel", "transfer"}

FiInit ==
  /\ fiBrowser = TRUE /\ fiKind = <<>> /\ fiShown = <<>>
  /\ fiFiles = 1 /\ fiHandlers = {1} /\ fiConns = 1 /\ fiLink = 1
  /\ fiDown = <<>> /\ fiUp = [c \in 1..FiMaxConns |-> <<>>]
  /\ fiExpect = <<>> /\ fiUpload = Idle
  /\ fiDownloads = Nothing /\ fiReady = {}
  /\ fiSession = TRUE /\ fiStaged = Nothing /\ fiDone = {}

FiSend(c, type, r) ==
  fiDown' = IF c = fiLink /\ c # 0 THEN Append(fiDown, <<type, r>>) ELSE fiDown

Without(f, rs) == [r \in DOMAIN f \ rs |-> f[r]]

-----------------------------------------------------------------------------
(***************************************************************************)
(* Requests of the browser (_browser_file_operation).                      *)
(***************************************************************************)
FiAsks(kind) ==
  /\ fiBrowser /\ fiFiles # 0
  /\ kind \in FiKinds /\ Len(fiKind) < FiMaxRequests
  /\ fiKind' = Append(fiKind, kind)
  /\ UNCHANGED <<fiBrowser, fiFiles, fiHandlers, fiConns, fiLink, fiUp, fiReady, fiSession,
                 fiStaged, fiDone>>

\* Also a move of two files, which are two requests to the agent and one to
\* the browser.
FiOperate(kind) ==
  LET r == Len(fiKind) + 1 IN
  /\ FiAsks(kind)
  /\ fiShown' = Append(fiShown, "nothing")
  /\ IF kind = "move"
       THEN /\ fiExpect' = fiExpect \o <<r, r>>
            /\ fiDown' = IF fiFiles = fiLink THEN fiDown \o <<<<kind, r>>, <<kind, r>>>> ELSE fiDown
       ELSE /\ fiExpect' = Append(fiExpect, r)
            /\ FiSend(fiFiles, kind, r)
  /\ kind \in {"list", "change", "move"}
  /\ UNCHANGED <<fiUpload, fiDownloads>>

\* A path that _safe_relative_path refuses, but after the expectation of a
\* listing or a deletion was queued: it stays there.
FiRefusedPath(kind) ==
  /\ FiAsks(kind)
  /\ kind \in {"list", "change"}
  /\ fiShown' = Append(fiShown, "failed")
  /\ fiExpect' = Append(fiExpect, Len(fiKind) + 1)
  /\ UNCHANGED <<fiDown, fiUpload, fiDownloads>>

FiDownload ==
  LET r == Len(fiKind) + 1 IN
  /\ FiAsks("download")
  /\ fiShown' = Append(fiShown, "nothing")
  /\ fiDownloads' = [q \in DOMAIN fiDownloads \cup {r} |-> IF q = r THEN 0 ELSE fiDownloads[q]]
  /\ FiSend(fiFiles, "download", r)
  /\ UNCHANGED <<fiExpect, fiUpload>>

\* remote_desktop_upload_multiple_files, up to the offer.  The channel found
\* here is the one that the whole upload uses.
FiUploadStart ==
  LET r == Len(fiKind) + 1 IN
  /\ fiUpload.step = "idle"
  /\ FiAsks("upload")
  /\ fiShown' = Append(fiShown, "nothing")
  /\ fiUpload' = [Idle EXCEPT !.r = r, !.step = "offer", !.tries = 1, !.over = fiFiles]
  /\ FiSend(fiFiles, "offer", r)
  /\ UNCHANGED <<fiExpect, fiDownloads>>

FiTells(r, what) == fiShown' = [fiShown EXCEPT ![r] = IF @ = "nothing" THEN what ELSE @]

-----------------------------------------------------------------------------
(***************************************************************************)
(* The upload goes on (_send_upload_file).                                 *)
(***************************************************************************)
FiUploading ==
  UNCHANGED <<fiBrowser, fiKind, fiFiles, fiHandlers, fiConns, fiLink, fiUp, fiExpect, fiDownloads,
              fiReady, fiSession, fiStaged, fiDone>>

FiUploadEnds(how) == FiTells(fiUpload.r, how) /\ fiUpload' = Idle /\ UNCHANGED fiDown

Mut_FiAccepted ==
  LET u == fiUpload
      at == IF u.step = "chunk" THEN u.at + 1 ELSE u.at IN
  /\ u.acks # <<>> /\ Head(u.acks) = "accepted"
  /\ IF at < FiChunks
       THEN /\ fiUpload' = [u EXCEPT !.step = "chunk", !.at = at, !.acks = Tail(@)]
            /\ FiSend(u.over, "chunk", u.r)
            /\ UNCHANGED fiShown
       ELSE /\ FiTells(u.r, "ok") /\ fiUpload' = Idle
            /\ FiSend(u.over, "complete", u.r)
  /\ FiUploading

\* The next message after "accepted", and the answer after the last.
FiAccepted ==
  LET u == fiUpload
      at == IF u.step = "chunk" THEN u.at + 1 ELSE u.at
      next == IF at < FiChunks THEN "chunk" ELSE "complete" IN
  /\ u.acks # <<>> /\ Head(u.acks) = "accepted"
  /\ IF u.step = "complete"
       THEN FiUploadEnds("ok")
       ELSE /\ fiUpload' = [u EXCEPT !.step = next, !.at = at, !.acks = Tail(@)]
            /\ FiSend(u.over, next, u.r)
            /\ UNCHANGED fiShown
  /\ FiUploading

\* A name that exists already is tried again with a number.
FiOtherName ==
  /\ fiUpload.acks # <<>> /\ Head(fiUpload.acks) = "exists"
  /\ fiUpload.step = "offer" /\ fiUpload.tries < FiMaxTries
  /\ fiUpload' = [fiUpload EXCEPT !.tries = @ + 1, !.acks = Tail(@)]
  /\ FiSend(fiUpload.over, "offer", fiUpload.r)
  /\ UNCHANGED fiShown
  /\ FiUploading

FiUploadRefused ==
  /\ fiUpload.acks # <<>> /\ Head(fiUpload.acks) # "accepted"
  /\ Head(fiUpload.acks) = "error" \/ fiUpload.step # "offer" \/ fiUpload.tries = FiMaxTries
  /\ FiUploadEnds("failed")
  /\ FiUploading

\* _wait_upload_ack after 20 seconds; or a channel that is gone.
FiUploadTimeout ==
  /\ fiUpload.step # "idle" /\ fiUpload.acks = <<>>
  /\ FiUploadEnds("failed")
  /\ FiUploading

-----------------------------------------------------------------------------
(***************************************************************************)
(* The file channel and the session.                                       *)
(***************************************************************************)

\* _fail_file_channel_state
FiFailChannel ==
  LET waiting == Range(fiExpect) \cup DOMAIN fiDownloads IN
  IF fiBrowser
    THEN /\ fiShown' = [r \in DOMAIN fiShown |->
                          IF r \in waiting /\ fiShown[r] = "nothing" THEN "channel" ELSE fiShown[r]]
         /\ fiExpect' = <<>> /\ fiDownloads' = Nothing
         /\ fiUpload' = IF fiUpload.step = "idle" THEN Idle
                        ELSE [fiUpload EXCEPT !.acks = Append(@, "error")]
    ELSE UNCHANGED <<fiShown, fiExpect, fiDownloads, fiUpload>>

\* remote_desktop_agent_files_ws up to its loop (_register_agent_channel).
FiRegister ==
  LET c == fiConns + 1 IN
  /\ fiLink = 0 /\ fiConns < FiMaxConns
  /\ fiConns' = c /\ fiLink' = c /\ fiFiles' = c
  /\ fiHandlers' = fiHandlers \cup {c}
  /\ IF fiFiles # 0 THEN FiFailChannel ELSE UNCHANGED <<fiShown, fiExpect, fiDownloads, fiUpload>>
  /\ fiDown' = IF fiBrowser THEN <<<<"open", 0>>>> ELSE <<>>
  /\ UNCHANGED <<fiBrowser, fiKind, fiUp, fiReady, fiSession, fiStaged, fiDone>>

\* The handler of a channel that the agent has left ends, after the messages
\* that had arrived, or at once (_unregister_agent_channel).
FiHandlerEnds(c) ==
  /\ c \in fiHandlers /\ c # fiLink
  /\ fiHandlers' = fiHandlers \ {c}
  /\ fiUp' = [fiUp EXCEPT ![c] = <<>>]
  /\ fiFiles' = IF fiFiles = c THEN 0 ELSE fiFiles
  /\ IF fiFiles = c THEN FiFailChannel ELSE UNCHANGED <<fiShown, fiExpect, fiDownloads, fiUpload>>
  /\ UNCHANGED <<fiBrowser, fiKind, fiConns, fiLink, fiDown, fiReady, fiSession, fiStaged, fiDone>>

\* The end of remote_desktop_browser_ws, as far as files are concerned.
FiBrowserGone ==
  /\ fiBrowser
  /\ fiBrowser' = FALSE
  /\ fiExpect' = <<>> /\ fiDownloads' = Nothing /\ fiReady' = {}
  /\ FiSend(fiFiles, "close", 0)
  /\ UNCHANGED <<fiKind, fiShown, fiFiles, fiHandlers, fiConns, fiLink, fiUp, fiUpload,
                 fiSession, fiStaged, fiDone>>

\* remote_desktop_browser_download, and _cleanup_transfers after 30 minutes.
FiFetch(r) ==
  /\ r \in fiReady
  /\ fiReady' = fiReady \ {r}
  /\ UNCHANGED <<fiBrowser, fiKind, fiShown, fiFiles, fiHandlers, fiConns, fiLink, fiDown, fiUp,
                 fiExpect, fiUpload, fiDownloads, fiSession, fiStaged, fiDone>>

-----------------------------------------------------------------------------
(***************************************************************************)
(* Answers of the agent (_handle_file_agent_message).                      *)
(***************************************************************************)
FiTake(c, type, r) ==
  /\ c \in fiHandlers
  /\ fiUp[c] # <<>> /\ Head(fiUp[c]) = <<type, r>>
  /\ fiUp' = [fiUp EXCEPT ![c] = Tail(@)]
  /\ UNCHANGED <<fiBrowser, fiKind, fiFiles, fiHandlers, fiConns, fiLink, fiDown, fiSession,
                 fiStaged, fiDone>>

FiAck(c, type, r) ==
  /\ type \in {"accepted", "exists", "error"}
  /\ fiUpload.step # "idle" /\ fiUpload.r = r
  /\ FiTake(c, type, r)
  /\ fiUpload' = [fiUpload EXCEPT !.acks = Append(@, type)]
  /\ UNCHANGED <<fiShown, fiExpect, fiDownloads, fiReady>>

\* The oldest expectation gets the result (_handle_operation_result); a batch
\* is told at its last.
FiPop(what) ==
  /\ fiExpect # <<>>
  /\ fiExpect' = Tail(fiExpect)
  /\ IF Head(fiExpect) \in Range(Tail(fiExpect))
       THEN UNCHANGED fiShown
       ELSE FiTells(Head(fiExpect), what)

FiResult(c, r) ==
  /\ FiTake(c, "result", r)
  /\ FiPop("ok") \/ (fiExpect = <<>> /\ UNCHANGED <<fiExpect, fiShown>>)
  /\ UNCHANGED <<fiUpload, fiDownloads, fiReady>>

\* A listing is shown in any case, and answers a request only at its turn.
FiListing(c, r) ==
  /\ FiTake(c, "listing", r)
  /\ IF fiExpect # <<>> /\ fiKind[Head(fiExpect)] = "list"
       THEN FiPop("ok")
       ELSE UNCHANGED <<fiExpect, fiShown>>
  /\ UNCHANGED <<fiUpload, fiDownloads, fiReady>>

\* An error that no upload waits for: of a download, or else for the oldest
\* expectation.
FiError(c, type, r) ==
  /\ type \in {"error", "exists"}
  /\ ~(fiUpload.step # "idle" /\ fiUpload.r = r)
  /\ FiTake(c, type, r)
  /\ IF r \in DOMAIN fiDownloads
       THEN /\ fiDownloads' = Without(fiDownloads, {r})
            /\ FiTells(r, "failed")
            /\ UNCHANGED fiExpect
       ELSE /\ \/ FiPop(IF r # 0 /\ fiKind[r] \in {"upload", "download"} THEN "transfer" ELSE "failed")
               \/ fiExpect = <<>> /\ UNCHANGED <<fiExpect, fiShown>>
            /\ UNCHANGED fiDownloads
  /\ UNCHANGED <<fiUpload, fiReady>>

\* An "accepted" that comes after the upload was given up.
FiLateAccepted(c, r) ==
  /\ ~(fiUpload.step # "idle" /\ fiUpload.r = r)
  /\ FiTake(c, "accepted", r)
  /\ UNCHANGED <<fiShown, fiExpect, fiUpload, fiDownloads, fiReady>>

FiChunk(c, r) ==
  /\ FiTake(c, "chunk", r)
  /\ fiDownloads' = IF r \in DOMAIN fiDownloads THEN [fiDownloads EXCEPT ![r] = @ + 1] ELSE fiDownloads
  /\ UNCHANGED <<fiShown, fiExpect, fiUpload, fiReady>>

\* _finalize_download
FiComplete(c, r) ==
  /\ FiTake(c, "complete", r)
  /\ IF r \in DOMAIN fiDownloads
       THEN /\ fiReady' = IF fiBrowser /\ fiDownloads[r] = FiChunks THEN fiReady \cup {r} ELSE fiReady
            /\ fiDownloads' = Without(fiDownloads, {r})
            /\ FiTells(r, IF fiDownloads[r] = FiChunks THEN "ok" ELSE "failed")
       ELSE UNCHANGED <<fiReady, fiDownloads, fiShown>>
  /\ UNCHANGED <<fiExpect, fiUpload>>

-----------------------------------------------------------------------------
(***************************************************************************)
(* The agent (_handle_file, FileArea).                                     *)
(***************************************************************************)
FiGet(type, r) ==
  /\ fiDown # <<>> /\ Head(fiDown) = <<type, r>>
  /\ fiDown' = Tail(fiDown)
  /\ UNCHANGED <<fibackend, fiLink>>

FiAnswer(ms) == fiUp' = [fiUp EXCEPT ![fiLink] = @ \o ms]

\* session_open reports the channel over HTTP; when that fails the session is
\* not open and an error goes out.
FiOpened ==
  /\ FiGet("open", 0)
  /\ \/ fiSession' = TRUE /\ UNCHANGED <<fiUp, fiStaged>>
     \/ fiSession' = FALSE /\ fiStaged' = Nothing /\ FiAnswer(<<<<"error", 0>>>>)
  /\ UNCHANGED fiDone

FiClosed ==
  /\ FiGet("close", 0)
  /\ fiSession' = FALSE /\ fiStaged' = Nothing
  /\ IF fiSession THEN UNCHANGED fiUp ELSE FiAnswer(<<<<"error", 0>>>>)
  /\ UNCHANGED fiDone

\* Any request may fail, and fails when the session is not open.
FiFails(type, r) ==
  /\ type \notin {"open", "close"}
  /\ FiGet(type, r)
  /\ FiAnswer(<<<<"error", r>>>>)
  /\ fiStaged' = IF type = "complete" THEN Without(fiStaged, {r}) ELSE fiStaged
  /\ UNCHANGED <<fiSession, fiDone>>

FiOperates(type, r) ==
  /\ fiSession /\ type \in {"list", "change", "move"}
  /\ FiGet(type, r)
  /\ FiAnswer(<<<<IF type = "list" THEN "listing" ELSE "result", r>>>>)
  /\ fiDone' = fiDone \cup {r}
  /\ UNCHANGED <<fiSession, fiStaged>>

\* download_messages; a read error breaks it off.
FiReads(r) ==
  /\ fiSession
  /\ FiGet("download", r)
  /\ \E n \in 0..FiChunks :
       FiAnswer([i \in 1..n |-> <<"chunk", r>>]
                \o (IF n = FiChunks THEN <<<<"complete", r>>>> ELSE <<<<"error", r>>>>))
  /\ UNCHANGED <<fiSession, fiStaged, fiDone>>

FiOffered(r) ==
  /\ fiSession
  /\ FiGet("offer", r)
  /\ \/ /\ r \notin DOMAIN fiStaged
        /\ FiAnswer(<<<<"accepted", r>>>>)
        /\ fiStaged' = [q \in DOMAIN fiStaged \cup {r} |-> IF q = r THEN 0 ELSE fiStaged[q]]
     \/ FiAnswer(<<<<"exists", r>>>>) /\ UNCHANGED fiStaged
  /\ UNCHANGED <<fiSession, fiDone>>

FiStages(r) ==
  /\ fiSession /\ r \in DOMAIN fiStaged
  /\ FiGet("chunk", r)
  /\ FiAnswer(<<<<"accepted", r>>>>)
  /\ fiStaged' = [fiStaged EXCEPT ![r] = @ + 1]
  /\ UNCHANGED <<fiSession, fiDone>>

\* upload_complete publishes the file when its size and SHA-256 are right.
FiPublishes(r) ==
  /\ fiSession /\ r \in DOMAIN fiStaged /\ fiStaged[r] = FiChunks
  /\ FiGet("complete", r)
  /\ FiAnswer(<<<<"accepted", r>>>>)
  /\ fiStaged' = Without(fiStaged, {r})
  /\ fiDone' = fiDone \cup {r}
  /\ UNCHANGED fiSession

\* The finally of _channel; of the answers on their way only the first arrive.
FiChannelLost ==
  /\ fiLink # 0
  /\ fiLink' = 0 /\ fiDown' = <<>>
  /\ \E n \in 0..Len(fiUp[fiLink]) : fiUp' = [fiUp EXCEPT ![fiLink] = SubSeq(@, 1, n)]
  /\ fiSession' = FALSE /\ fiStaged' = Nothing
  /\ UNCHANGED <<fibackend, fiDone>>

-----------------------------------------------------------------------------
FiRequest ==
  \/ \E kind \in FiKinds : FiOperate(kind) \/ FiRefusedPath(kind)
  \/ FiDownload \/ FiUploadStart

FiHandle(c) ==
  \E r \in 0..Len(fiKind) :
    \/ FiResult(c, r) \/ FiListing(c, r) \/ FiLateAccepted(c, r) \/ FiChunk(c, r) \/ FiComplete(c, r)
    \/ \E type \in {"accepted", "exists", "error"} : FiAck(c, type, r) \/ FiError(c, type, r)

FiAgentStep ==
  \/ FiOpened \/ FiClosed \/ FiChannelLost
  \/ \E r \in DOMAIN fiKind :
       \/ FiReads(r) \/ FiOffered(r) \/ FiStages(r) \/ FiPublishes(r)
       \/ \E type \in FiKinds \cup {"offer", "chunk", "complete"} : FiOperates(type, r) \/ FiFails(type, r)

FiNext ==
  \/ FiRequest \/ FiBrowserGone \/ FiRegister \/ FiAgentStep
  \/ FiAccepted \/ FiOtherName \/ FiUploadRefused \/ FiUploadTimeout
  \/ \E c \in fiHandlers : FiHandle(c) \/ FiHandlerEnds(c)
  \/ \E r \in fiReady : FiFetch(r)

FiSpec == FiInit /\ [][FiNext]_fivars

-----------------------------------------------------------------------------
(***************************************************************************)
(* Properties.                                                             *)
(***************************************************************************)
FiTypeOK ==
  /\ fiBrowser \in BOOLEAN /\ fiSession \in BOOLEAN
  /\ fiKind \in Seq(FiKinds) /\ Len(fiKind) <= FiMaxRequests
  /\ fiShown \in [DOMAIN fiKind -> Shown]
  /\ fiFiles \in fiHandlers \cup {0} /\ fiHandlers \subseteq 1..fiConns
  /\ fiConns \in 1..FiMaxConns /\ fiLink \in 0..fiConns
  /\ Range(fiExpect) \subseteq DOMAIN fiKind
  /\ fiUpload.r \in DOMAIN fiKind \cup {0} /\ fiUpload.at \in 0..FiChunks
  /\ DOMAIN fiDownloads \subseteq DOMAIN fiKind /\ fiReady \subseteq DOMAIN fiKind
  /\ DOMAIN fiStaged \subseteq DOMAIN fiKind /\ fiDone \subseteq DOMAIN fiKind

\* An upload is answered with success only after the agent has published the
\* file: every message of it waits for its own answer, also when the channel
\* is replaced, the session closed or an answer late.
UploadShownIsPublished ==
  \A r \in DOMAIN fiKind : fiKind[r] = "upload" /\ fiShown[r] = "ok" => r \in fiDone
=============================================================================
