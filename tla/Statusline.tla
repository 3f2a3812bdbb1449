------------------------------- MODULE Statusline -------------------------------
(***************************************************************************)
(* `aireceipts statusline` (src/cli/commands/statusline.ts over            *)
(* src/cli/statuslineSegments.ts): one line about a session, for a bar     *)
(* that polls.  The host hands a payload over, with the transcript of its  *)
(* session and the usage of the account's window; without a transcript     *)
(* that loads, the line is about the newest session on the disk, or about  *)
(* the newest one of a directory (src/parse/cwdScope.ts).  The quotaEta    *)
(* segment compares the usage with the reading that an earlier poll left   *)
(* (src/cli/quotaWindow.ts).  Polls overlap, payloads are as old as they   *)
(* are, transcripts come and go, the account is used elsewhere, the        *)
(* window renews, and the clock is set back.                               *)
(*                                                                         *)
(* A path is a sequence of segments, a segment a sequence of words.        *)
(* Sessions are numbered as they ended.  A reading carries `asOf`, the     *)
(* state of the account it is about, `real`, when it was stamped, and      *)
(* `off`, how wrong the clock was, only so that properties can be stated.  *)
(***************************************************************************)
EXTENDS Integers, Sequences, FiniteSets, SequencesExt

CONSTANTS
    Bars,       \* bars that poll
    Sessions,   \* a set of positive numbers
    AgentOf,    \* by session
    CwdOf,      \* by session: the path it recorded
    Home,       \* the home directory
    Uses,       \* sets of ways in which it is called: [given, config, scoped, cwd, host], where
                \* `given` is --format, `config` the items of statusline.json,
                \* `cwd` what --cwd says, and `host` the payload:
                \* [session (0: none), limits, model, context]
    MaxLoads,   \* MAX_SCOPED_LOAD_ATTEMPTS
    Gap,        \* MIN_READING_GAP_MS
    Levels,     \* what used_percentage may be
    WindowLong, \* five hours
    LastMoment, \* bound: how long we look
    MaxStates,  \* bound: states of the account
    MaxSpoilt,  \* bound: transcripts that go or cannot be read
    MaxOff      \* bound: how far the clock is set back

(* A percentage that is out of range is no reading; 0 is no session. *)
Paths == Seq(Seq(STRING))
ASSUME StatuslineAssumption ==
    /\ Levels \subseteq 0..100 /\ Gap \in Nat /\ WindowLong \in Nat \ {0}
    /\ Sessions \subseteq Nat \ {0} /\ IsFiniteSet(Sessions) /\ MaxLoads \in Nat
    /\ Home \in Paths /\ \A s \in Sessions : CwdOf[s] \in Paths
    /\ \A calling \in Uses : \A c \in calling : c.cwd \in Paths /\ c.host.session \in Sessions \cup {0}

VARIABLES
    real,    \* the time
    off,     \* how far the clock is behind it
    account, \* used_percentage and resets_at, a state after the other
    sound,   \* transcripts that load
    spoilt,  \* how many did not, so far
    reading, \* quota-window.json
    calls,   \* how the bars call the command
    bar      \* each bar's poll

barVars == <<real, off, account, sound, spoilt, reading, calls, bar>>
world == <<real, off, account, sound, spoilt, calls>>

SEGMENT_NAMES == {"brand", "model", "cost", "context", "quota5h", "quotaEta"}
DEFAULT_FORMAT == <<"brand", "model", "cost", "context", "quota5h">>
NotGiven == <<>>
NoReading == [observedAt |-> -1, used |-> 0, resets |-> 0, asOf |-> 0, real |-> 0, off |-> 0]
NoEta == [shown |-> FALSE, crossing |-> <<0, 1>>, from |-> NoReading, to |-> NoReading]
NoHost == [session |-> 0, limits |-> FALSE, model |-> FALSE, context |-> FALSE]
NoLine == [kind |-> "none", segments |-> <<>>, eta |-> NoEta]
Idle == [at |-> "idle", format |-> NotGiven, scoped |-> FALSE, cwd |-> <<>>,
         host |-> NoHost, asOf |-> 0, queue |-> {}, steady |-> {}, picked |-> 0,
         stdin |-> FALSE, current |-> NoReading, prior |-> NoReading, line |-> NoLine]

BarInit ==
    /\ real = 0
    /\ off = 0
    /\ account = <<[used |-> 0, resets |-> WindowLong]>>
    /\ sound = Sessions
    /\ spoilt = 0
    /\ reading = NoReading
    /\ calls \in Uses
    /\ bar = [p \in Bars |-> Idle]

-----------------------------------------------------------------------------
(* normalizeCwd, of an absolute path: `.` and `..` are resolved by the text *)
(* alone, and `..` stays at the root.                                       *)
normalizeCwd(path) ==
    LET f[i \in 0..Len(path)] ==
            IF i = 0 THEN <<>>
            ELSE CASE path[i] = <<".">> -> f[i - 1]
                   [] path[i] = <<"..">> -> IF f[i - 1] = <<>> THEN <<>> ELSE Front(f[i - 1])
                   [] OTHER -> Append(f[i - 1], path[i])
    IN  f[Len(path)]

matchesNormalized(session, requested) == IsPrefix(session, requested)

(* A session belongs to its directory and all below it, but one that was   *)
(* recorded at the home directory or above only to that very directory.    *)
cwdMatchesForAttribution(sessionCwd, requestedCwd) ==
    LET session == normalizeCwd(sessionCwd)
        requested == normalizeCwd(requestedCwd)
    IN  /\ matchesNormalized(session, requested)
        /\ session = requested \/ ~IsPrefix(session, normalizeCwd(Home))

(* The separator and the dash are one character afterwards. *)
encodeClaudeProjectCwd(path) == FlattenSeq(path)

claudeProjectDirectoryNames(requestedCwd) ==
    LET cwd == normalizeCwd(requestedCwd)
    IN  {encodeClaudeProjectCwd(SubSeq(cwd, 1, n)) : n \in 0..Len(cwd)}

(* The n newest of some sessions. *)
Newest(S, n) == {s \in S : Cardinality({t \in S : t > s}) < n}

(* listSessionsForCwd: Claude Code's by directory name, the others by the  *)
(* path in their row, Cursor's not at all.                                 *)
listSessionsForCwd(cwd) ==
    {s \in sound :
        CASE AgentOf[s] = "claude-code" ->
                encodeClaudeProjectCwd(normalizeCwd(CwdOf[s])) \in claudeProjectDirectoryNames(cwd)
          [] AgentOf[s] = "cursor" -> FALSE
          [] OTHER -> cwdMatchesForAttribution(CwdOf[s], cwd)}

(* parseFormat, and statusline.json's items: every name must be known. *)
parses(format) == ToSet(format) \subseteq SEGMENT_NAMES

Becomes(p, b) == bar' = [bar EXCEPT ![p] = b]

(* runStatusline up to the reading of stdin.  An unknown segment in        *)
(* --format is refused; in statusline.json it makes the file be ignored.   *)
Start(p, c, k) ==
    LET format == IF c.given # NotGiven THEN c.given
                  ELSE IF c.config # NotGiven /\ parses(c.config) THEN c.config
                  ELSE DEFAULT_FORMAT
    IN  /\ bar[p].at = "idle"
        /\ Becomes(p, IF ~parses(format) THEN [Idle EXCEPT !.line.kind = "refused"]
                      ELSE [Idle EXCEPT !.at = "stdin", !.format = format, !.scoped = c.scoped,
                                        !.cwd = c.cwd, !.host = c.host, !.asOf = k,
                                        !.steady = sound])
        /\ UNCHANGED <<world, reading>>

(* loadFromStdinPayload *)
FromPayload(p) ==
    LET b == bar[p]
    IN  /\ b.at = "stdin"
        /\ Becomes(p, IF b.host.session \in sound
                        THEN [b EXCEPT !.at = "render", !.picked = b.host.session, !.stdin = TRUE]
                        ELSE [b EXCEPT !.at = "list"])
        /\ UNCHANGED <<world, reading>>

(* loadFromDisk takes the newest session there is or none; loadFromCwd     *)
(* tries the newest MaxLoads.                                              *)
List(p) ==
    LET b == bar[p]
    IN  /\ b.at = "list"
        /\ Becomes(p, [b EXCEPT !.at = "load",
                                !.queue = IF b.scoped THEN Newest(listSessionsForCwd(b.cwd), MaxLoads)
                                          ELSE Newest(sound, 1)])
        /\ UNCHANGED <<world, reading>>

(* Mutation: the row's directory is trusted. *)
Confirmed_Row(b, s) == TRUE

(* The path in the transcript decides, not the row's. *)
Confirmed(b, s) == b.scoped => cwdMatchesForAttribution(CwdOf[s], b.cwd)

(* From the newest one on. *)
LoadNext(p) ==
    LET b == bar[p]
    IN  /\ b.at = "load"
        /\ \E s \in b.queue :
              /\ \A t \in b.queue : t <= s
              /\ Becomes(p, IF s \in sound /\ Confirmed(b, s)
                              THEN [b EXCEPT !.at = "render", !.picked = s]
                              ELSE [b EXCEPT !.queue = @ \ {s}])
        /\ UNCHANGED <<world, reading>>

NoSession(p) ==
    LET b == bar[p]
    IN  /\ b.at = "load" /\ b.queue = {}
        /\ Becomes(p, [b EXCEPT !.at = "shown", !.line.kind = "placeholder"])
        /\ UNCHANGED <<world, reading>>

-----------------------------------------------------------------------------
(* What a segment says is about a session, or, as 0, about the payload.    *)
(* It is omitted if there is nothing to say.                               *)
Says(b, name) ==
    CASE name = "brand" -> <<IF b.stdin THEN 0 ELSE b.picked>>
      [] name = "model" -> <<IF b.stdin /\ b.host.model THEN 0 ELSE b.picked>>
      [] name = "cost" -> <<b.picked>>
      [] name = "context" -> IF b.host.context THEN <<0>> ELSE <<>>
      [] name = "quota5h" -> IF b.asOf # 0 THEN <<0>> ELSE <<>>
      [] name = "quotaEta" -> <<>>

(* Mutation: readings of two windows are compared. *)
projectCapCrossingMs_AnyWindow(prior, current) ==
    LET gap == current.observedAt - prior.observedAt
        rise == current.used - prior.used
        crossing == <<current.observedAt * rise + (100 - current.used) * gap, rise>>
    IN  IF /\ gap >= Gap /\ rise > 0
           /\ crossing[1] < current.resets * crossing[2]
        THEN [shown |-> TRUE, crossing |-> crossing, from |-> prior, to |-> current]
        ELSE NoEta

(* The moment, as a fraction, at which the line through two readings of    *)
(* one window meets 100 %; nothing, unless it rises and meets it before    *)
(* the window is over.                                                     *)
projectCapCrossingMs(prior, current) ==
    LET gap == current.observedAt - prior.observedAt
        rise == current.used - prior.used
        crossing == <<current.observedAt * rise + (100 - current.used) * gap, rise>>
    IN  IF /\ prior.resets = current.resets
           /\ gap >= Gap /\ rise > 0
           /\ crossing[1] < current.resets * crossing[2]
        THEN [shown |-> TRUE, crossing |-> crossing, from |-> prior, to |-> current]
        ELSE NoEta

(* renderSegments: what each segment of the format says, by its place; what *)
(* says nothing leaves no trace.                                           *)
renderSegments(b, eta) ==
    LET named == {i \in DOMAIN b.format : IF b.format[i] = "quotaEta" THEN eta.shown
                                          ELSE Says(b, b.format[i]) # <<>>}
    IN  [kind |-> "line", eta |-> eta,
         segments |-> [i \in named |->
             <<b.format[i], IF b.format[i] = "quotaEta" THEN 0 ELSE Says(b, b.format[i])[1]>>]]

(* The receipt model is built, and the clock read: the line, unless there   *)
(* is a reading to compare with.                                            *)
Render(p) ==
    LET b == bar[p]
        host == account[b.asOf]
        now == real - off
    IN  /\ b.at = "render"
        /\ Becomes(p,
              IF b.asOf # 0 /\ "quotaEta" \in ToSet(b.format)
              THEN [b EXCEPT !.at = "prior",
                             !.current = [observedAt |-> now, used |-> host.used,
                                          resets |-> host.resets, asOf |-> b.asOf,
                                          real |-> real, off |-> off]]
              ELSE [b EXCEPT !.at = "shown", !.line = renderSegments(b, NoEta)])
        /\ UNCHANGED <<world, reading>>

readPriorReading(p) ==
    LET b == bar[p]
    IN  /\ b.at = "prior"
        /\ Becomes(p, [b EXCEPT !.at = "write", !.prior = reading])
        /\ UNCHANGED <<world, reading>>

(* writeReading renames a file of its own into place, or fails unnoticed;   *)
(* then the line.                                                           *)
writeReading(p) ==
    LET b == bar[p]
        eta == IF b.prior = NoReading THEN NoEta ELSE projectCapCrossingMs(b.prior, b.current)
    IN  /\ b.at = "write"
        /\ reading' \in {reading, b.current}
        /\ Becomes(p, [b EXCEPT !.at = "shown", !.line = renderSegments(b, eta)])
        /\ UNCHANGED world

(* The line was seen, or the poll was cut off; the next one begins. *)
EndPoll(p) ==
    /\ bar[p] # Idle
    /\ Becomes(p, Idle)
    /\ UNCHANGED <<world, reading>>

-----------------------------------------------------------------------------
Tick ==
    /\ real < LastMoment
    /\ real' = real + 1
    /\ UNCHANGED <<off, account, sound, spoilt, reading, calls, bar>>

SetBack ==
    /\ off < MaxOff
    /\ off' = off + 1
    /\ UNCHANGED <<real, account, sound, spoilt, reading, calls, bar>>

(* The account is used, or its window is over and the next one begins. *)
Account ==
    /\ Len(account) < MaxStates
    /\ LET now == Last(account)
       IN  account' \in
              {Append(account, [now EXCEPT !.used = u]) : u \in {l \in Levels : l > now.used}}
              \cup (IF real < now.resets THEN {}
                    ELSE {Append(account, [used |-> u, resets |-> real + WindowLong]) : u \in Levels})
    /\ UNCHANGED <<real, off, sound, spoilt, reading, calls, bar>>

(* A transcript goes, cannot be read, or can again. *)
Transcript(s) ==
    /\ spoilt < MaxSpoilt
    /\ spoilt' = spoilt + 1
    /\ sound' = IF s \in sound THEN sound \ {s} ELSE sound \cup {s}
    /\ bar' = [p \in Bars |-> [bar[p] EXCEPT !.steady = @ \ {s}]]
    /\ UNCHANGED <<real, off, account, reading, calls>>

(* quota-window.json is deleted, or damaged. *)
LoseReading ==
    /\ reading' = NoReading
    /\ UNCHANGED <<world, bar>>

Poll(p) ==
    \/ \E c \in calls : \E k \in IF c.host.limits THEN DOMAIN account ELSE {0} : Start(p, c, k)
    \/ FromPayload(p) \/ List(p) \/ LoadNext(p) \/ NoSession(p)
    \/ Render(p) \/ readPriorReading(p) \/ writeReading(p) \/ EndPoll(p)

BarNext ==
    \/ \E p \in Bars : Poll(p)
    \/ Tick \/ SetBack \/ Account \/ LoseReading
    \/ \E s \in Sessions : Transcript(s)

BarSpec == BarInit /\ [][BarNext]_barVars

-----------------------------------------------------------------------------
(* "It renders ONLY when every guard holds - ambiguity is answered with    *)
(* omission" (quotaWindow.ts:5): whatever polls overlap, however old their *)
(* payloads and wherever the clock was, a projection stands for usage that *)
(* did rise within one window, from the state of the account that the      *)
(* earlier reading is about to that of the later one; and with a clock     *)
(* that was right, the two were taken at least the gap apart and the cap   *)
(* is met from now on and before the window is over.                       *)
EtaSound ==
    \A p \in Bars :
        LET eta == bar[p].line.eta
            then == account[eta.from.asOf]
            now == account[eta.to.asOf]
        IN  eta.shown =>
                /\ eta.from.asOf < eta.to.asOf
                /\ then.resets = now.resets /\ then.used < now.used
                /\ eta.from.off = 0 /\ eta.to.off = 0 =>
                      /\ eta.to.real - eta.from.real >= Gap
                      /\ eta.to.real * eta.crossing[2] <= eta.crossing[1]
                      /\ eta.crossing[1] < now.resets * eta.crossing[2]

(* The session of a directory: an ancestor of it, or the directory itself. *)
Belongs(s, cwd) ==
    LET own == normalizeCwd(CwdOf[s])
        asked == normalizeCwd(cwd)
        home == normalizeCwd(Home)
    IN  \E n \in 0..Len(asked) :
            /\ own = SubSeq(asked, 1, n)
            /\ n = Len(asked) \/ \A m \in 0..Len(home) : own # SubSeq(home, 1, m)

(* SPEC-0075: "an honest omission, never a wrong session".  A line from    *)
(* the disk for a directory is about a session of that directory, and no   *)
(* later one of it could be read all the while; there is none only if none *)
(* could be read or too many others come first; and no number or name of   *)
(* another session stands in the line.                                     *)
RightSession ==
    \A p \in Bars :
        LET b == bar[p]
            eligible == {s \in b.steady : Belongs(s, b.cwd) /\ AgentOf[s] # "cursor"}
            named == {b.line.segments[i] : i \in DOMAIN b.line.segments}
        IN  b.at = "shown" =>
            /\ b.line.kind = "line" /\ b.scoped /\ ~b.stdin =>
                  /\ Belongs(b.picked, b.cwd)
                  /\ \A s \in eligible : s <= b.picked
            /\ b.line.kind = "placeholder" /\ b.scoped =>
                  \A s \in eligible : Cardinality({t \in Sessions : t > s}) >= MaxLoads
            /\ \A seg \in named : seg[1] \in {"brand", "model", "cost"} =>
                  \/ seg[2] = b.picked
                  \/ b.stdin /\ seg[2] = 0 /\ b.picked = b.host.session
================================================================================
