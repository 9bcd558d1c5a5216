--------------------------- MODULE HorizonStream ---------------------------
(***************************************************************************)
(* HorizonStreamManager (src/horizon/HorizonStreamManager.ts): one stream  *)
(* of records, resumed from a stored bookmark when it breaks.  The server  *)
(* may repeat records; a ring buffer of tokens keeps repeated ones from    *)
(* the handler, and records that are too old are dropped.  A record's      *)
(* token is its position.                                                  *)
(***************************************************************************)
EXTENDS Naturals, SequencesExt

CONSTANTS
    MaxRecords,       \* bound: records published
    DedupeSize,       \* dedupeBufferSize
    Overlap,          \* bound: how far behind the bookmark the server goes back
    MaxOverrides,     \* bound: calls of setCursor()
    MaxRefusals,      \* bound: refusals counted
    ReconnectLimits   \* the values of maxReconnectAttempts

ASSUME HorizonBounds ==
    /\ MaxRecords \in Nat /\ DedupeSize \in Nat /\ Overlap \in Nat
    /\ MaxOverrides \in Nat /\ MaxRefusals \in Nat /\ ReconnectLimits \subseteq Nat

VARIABLES
    limit,      \* _maxReconnectAttempts
    published,  \* external: the newest record
    aged,       \* external: the newest record older than replayCutoffMs
    stream,     \* _closeStream: "none", "connecting" or "open"
    sent,       \* external: the position of the stream
    bookmark,   \* _cursor, 0 for null
    stored,     \* the cursor in the store
    ring,       \* _seenTokens
    ringing,    \* _reconnectTimer is set
    idle,       \* _stopped
    tries,      \* _reconnectAttempts
    floor,      \* history: the bookmark start() began with
    received,   \* history: how often the handler was given each record, up to 2
    excused,    \* history: records dropped for their age, or skipped by setCursor()
    refused,    \* history: connections refused one after another
    overrides   \* bound: calls of setCursor() left

horizonVars == <<limit, published, aged, stream, sent, bookmark, stored, ring, ringing, idle,
                 tries, floor, received, excused, refused, overrides>>

Records == 1 .. MaxRecords

HorizonTypeOK ==
    /\ limit \in ReconnectLimits
    /\ published \in 0 .. MaxRecords /\ aged \in 0 .. published
    /\ stream \in {"none", "connecting", "open"} /\ sent \in 0 .. published
    /\ bookmark \in 0 .. published /\ stored = bookmark /\ floor \in 0 .. published
    /\ ring \in Seq(Records) /\ Len(ring) <= DedupeSize
    /\ ringing \in BOOLEAN /\ idle \in BOOLEAN /\ tries \in 0 .. limit + 1
    /\ received \in [Records -> 0 .. 2]
    /\ excused \subseteq Records /\ refused \in 0 .. MaxRefusals /\ overrides \in 0 .. MaxOverrides

HorizonInit ==
    /\ limit \in ReconnectLimits
    /\ published = 0 /\ aged = 0
    /\ stream = "none" /\ sent = 0
    /\ bookmark = 0 /\ stored = 0 /\ ring = <<>>
    /\ ringing = FALSE /\ idle = TRUE /\ tries = 0
    /\ floor = 0 /\ received = [t \in Records |-> 0]
    /\ excused = {} /\ refused = 0 /\ overrides = MaxOverrides

historyVars == <<floor, received, excused, overrides>>

-----------------------------------------------------------------------------
RecordPublished ==
    /\ published < MaxRecords
    /\ published' = published + 1
    /\ UNCHANGED <<limit, aged, stream, sent, bookmark, stored, ring, ringing, idle, tries,
                   refused>>
    /\ UNCHANGED historyVars

RecordAges ==
    /\ aged < published
    /\ aged' = aged + 1
    /\ UNCHANGED <<limit, published, stream, sent, bookmark, stored, ring, ringing, idle,
                   tries, refused>>
    /\ UNCHANGED historyVars

(* start(): stop() first, then a stream from the stored bookmark.           *)
StartStream ==
    /\ idle' = FALSE /\ ringing' = FALSE /\ tries' = 0
    /\ bookmark' = stored /\ ring' = <<>>
    /\ stream' = "connecting" /\ sent' = stored
    /\ floor' = stored /\ refused' = 0
    /\ UNCHANGED <<limit, published, aged, stored, received, excused, overrides>>

StopStream ==
    /\ ~idle
    /\ idle' = TRUE /\ ringing' = FALSE /\ stream' = "none"
    /\ UNCHANGED <<limit, published, aged, sent, bookmark, stored, ring, tries, refused>>
    /\ UNCHANGED historyVars

(* setCursor(): records may come again, and those before the token need not *)
(* come.  A stream that runs is not moved.  Bound: called while it runs.     *)
OverrideCursor(t) ==
    /\ overrides > 0 /\ ~idle /\ t # bookmark
    /\ bookmark' = t /\ stored' = t
    /\ excused' = excused \cup 1 .. t
    /\ overrides' = overrides - 1
    /\ UNCHANGED <<limit, published, aged, stream, sent, ring, ringing, idle, tries,
                   floor, received, refused>>

-----------------------------------------------------------------------------
(* External: the connection is made; the server may go back some records.   *)
StreamOpens ==
    /\ stream = "connecting"
    /\ stream' = "open" /\ refused' = 0
    /\ UNCHANGED <<limit, published, aged, sent, bookmark, stored, ring, ringing, idle, tries>>
    /\ UNCHANGED historyVars

ServerRepeats ==
    /\ stream = "open"
    /\ sent' \in {p \in floor .. sent : p < sent /\ bookmark <= p + Overlap}
    /\ UNCHANGED <<limit, published, aged, stream, bookmark, stored, ring, ringing, idle,
                   tries, refused>>
    /\ UNCHANGED historyVars

Remember(t) ==
    IF Len(ring) < DedupeSize THEN Append(ring, t) ELSE Tail(Append(ring, t))

(* _onMessage(): a token that is remembered is passed over, one that is too *)
(* old is only remembered; otherwise the bookmark moves, then the handler   *)
(* is called.                                                               *)
OnMessage ==
    /\ stream = "open" /\ sent < published
    /\ sent' = sent + 1
    /\ IF Contains(ring, sent') THEN UNCHANGED <<ring, bookmark, stored, received, excused>>
       ELSE /\ ring' = Remember(sent')
            /\ IF sent' <= aged
               THEN /\ excused' = excused \cup {sent'}
                    /\ UNCHANGED <<bookmark, stored, received>>
               ELSE /\ bookmark' = sent' /\ stored' = sent'
                    /\ received' = [received EXCEPT ![sent'] = IF @ < 2 THEN @ + 1 ELSE 2]
                    /\ UNCHANGED excused
    /\ UNCHANGED <<limit, published, aged, stream, ringing, idle, tries, floor, refused,
                   overrides>>

(* _onError(): the stream is closed, and a timer set unless too many tries  *)
(* have been counted.                                                       *)
OnError ==
    /\ stream # "none"
    /\ stream' = "none" /\ tries' = tries + 1
    /\ ringing' = (tries' <= limit)
    /\ refused' = IF stream = "connecting" /\ refused < MaxRefusals THEN refused + 1 ELSE refused
    /\ UNCHANGED <<limit, published, aged, sent, bookmark, stored, ring, idle>>
    /\ UNCHANGED historyVars

(* The timer: the stream is asked for again, and the tries are forgotten    *)
(* before it has opened.                                                    *)
Reconnect_ForgetsRing ==
    /\ ringing
    /\ ringing' = FALSE
    /\ stream' = "connecting" /\ sent' = bookmark /\ tries' = 0 /\ ring' = <<>>
    /\ UNCHANGED <<limit, published, aged, bookmark, stored, idle, refused>>
    /\ UNCHANGED historyVars
Reconnect ==
    /\ ringing
    /\ ringing' = FALSE
    /\ stream' = "connecting" /\ sent' = bookmark /\ tries' = 0
    /\ UNCHANGED <<limit, published, aged, bookmark, stored, ring, idle, refused>>
    /\ UNCHANGED historyVars

HorizonNext ==
    \/ RecordPublished \/ RecordAges
    \/ StartStream \/ StopStream \/ \E t \in 0 .. published : OverrideCursor(t)
    \/ StreamOpens \/ ServerRepeats \/ OnMessage \/ OnError \/ Reconnect

HorizonSpec == HorizonInit /\ [][HorizonNext]_horizonVars

-----------------------------------------------------------------------------
(* Until setCursor() is called the handler is given no record twice,        *)
(* however the server repeats itself within nearly half the buffer and      *)
(* wherever the stream breaks or is started again; no record behind the     *)
(* bookmark was left out but for its age; and the manager, until it is      *)
(* stopped or gives up, has a stream or a timer that will ask for one.      *)
RecordsOnceInReach ==
    /\ \A t \in Records : overrides = MaxOverrides => received[t] <= 1
    /\ \A t \in 1 .. bookmark : received[t] > 0 \/ t \in excused
    /\ stream # "none" \/ ringing \/ idle \/ tries > limit

(* "Maximum number of reconnect attempts before giving up", as the comment  *)
(* of maxReconnectAttempts says: after the first connection no more than    *)
(* that many are refused one after another.                                 *)
GivesUpInTime == refused <= limit + 1
=============================================================================
