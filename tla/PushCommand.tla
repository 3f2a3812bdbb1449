------------------------------- MODULE PushCommand -------------------------------
(***************************************************************************)
(* How a shell command line is read (src/pr/gitWrite.ts) and when the      *)
(* pre-push hook takes it for a push that should carry a receipt           *)
(* (shouldAttach, src/cli/commands/hook-pre-push.ts), next to what the     *)
(* shell and git make of the same line.  A line is a sequence of words     *)
(* that grows one by one; a quoted script is one word of it, and what a    *)
(* word is made of (letters of a short option, sides of a refspec) is      *)
(* given by the constants.                                                 *)
(***************************************************************************)
EXTENDS Integers, Sequences, FiniteSets, SequencesExt

CONSTANTS
    Words,
    Openings, \* how a line may begin
    MaxWords, \* bound: words of a line
    Flags,    \* short options: their letters
    RepoIs,   \* --repo=<remote>: the remote
    Long,     \* the other options
    Refspec,  \* words that are refspecs: [src, dst], "" if it has no such side
    Quoted    \* quoted words: the words of the script

VARIABLE line

LineInit == line \in Openings

Type(w) == Len(line) < MaxWords /\ line' = Append(line, w)

LineNext == \E w \in Words : Type(w)

LineSpec == LineInit /\ [][LineNext]_line

-----------------------------------------------------------------------------
(* Words and commands. *)
Operators == {";", "newline"}
Assignments == {"A=1"}
Shells == {"sh", "bash", "zsh", "dash"}
ShellCFlags == {"-c", "-lc", "-ic", "-lic"}
CwdChanging == {"cd", "pushd", "popd"}
IsOption(w) == w \in DOMAIN Flags \cup DOMAIN RepoIs \cup Long

(* commandsFromTokens: the commands between operators. *)
CommandsOf(words) ==
    LET cuts == SetToSortSeq({0, Len(words) + 1}
                             \cup {i \in DOMAIN words : words[i] \in Operators}, <)
        pieces == [k \in 1..(Len(cuts) - 1) |-> SubSeq(words, cuts[k] + 1, cuts[k + 1] - 1)]
    IN SelectSeq(pieces, LAMBDA c : c # <<>>)

ScriptOf(w) == IF w \in DOMAIN Quoted THEN Quoted[w] ELSE <<w>>

(* The script of `bash -c script`, if the command is one. *)
WrappedScript(argv) ==
    LET flags == {i \in DOMAIN argv : argv[i] \in ShellCFlags}
    IN IF argv[1] \in Shells /\ flags # {} /\ Min(flags) < Len(argv)
         THEN ScriptOf(argv[Min(flags) + 1]) ELSE <<>>

(* resolveInvocations *)
RECURSIVE Resolve(_, _)
Resolve(commands, depth) ==
    IF depth > 3 THEN commands
    ELSE FlattenSeq([k \in DOMAIN commands |->
            LET script == WrappedScript(commands[k])
            IN IF script = <<>> THEN <<commands[k]>>
               ELSE Resolve(CommandsOf(script), depth + 1)])

(* toolCallInvocations *)
Invocations(words) == Resolve(CommandsOf(words), 0)

(* stripShellRedirections: `> file` are two words, `>file` and `2>&1` one. *)
Strip(argv) ==
    LET read(p, w) ==
            CASE p.await -> [p EXCEPT !.await = FALSE]
              [] ~p.await /\ w \in {">", "2>", "<"} -> [p EXCEPT !.await = TRUE]
              [] ~p.await /\ w \in {">out", "2>&1"} -> p
              [] OTHER -> [p EXCEPT !.words = Append(@, w)]
    IN FoldLeft(read, [await |-> FALSE, words |-> <<>>], argv).words

-----------------------------------------------------------------------------
(* git's own command line, as the code reads it. *)
GlobalValueOptions == {"-C", "-c", "--git-dir", "--work-tree", "--namespace", "--exec-path"}

FirstReal(argv) ==
    LET real == {i \in DOMAIN argv : argv[i] \notin Assignments}
    IN IF real = {} THEN 0 ELSE Min(real)

(* gitCommandIndex, gitSubcommandIndex; 0 if there is none. *)
GitAt(argv) ==
    IF FirstReal(argv) # 0 /\ argv[FirstReal(argv)] = "git" THEN FirstReal(argv) ELSE 0

SubcommandAt(argv) ==
    LET skip[i \in 1..(Len(argv) + 2)] ==
            CASE i > Len(argv) -> 0
              [] i <= Len(argv) /\ argv[i] \in GlobalValueOptions -> skip[i + 2]
              [] i <= Len(argv) /\ argv[i] \notin GlobalValueOptions /\ IsOption(argv[i]) ->
                    skip[i + 1]
              [] OTHER -> i
    IN IF GitAt(argv) = 0 THEN 0 ELSE skip[GitAt(argv) + 1]

(* gitWriteVerb, toolCallGitVerb *)
Runs(argv, verb) == SubcommandAt(argv) # 0 /\ argv[SubcommandAt(argv)] = verb
IsGitWrite(words) ==
    \E argv \in ToSet(Invocations(words)) : Runs(argv, "push") \/ Runs(argv, "commit")

PushValueOptions == {"--receive-pack", "--exec", "--push-option", "--recurse-submodules"}
PushFlags == {"--atomic", "--delete", "--dry-run", "--follow-tags", "--force",
    "--force-with-lease", "--mirror", "--no-verify", "--prune", "--quiet", "--set-upstream",
    "--tags", "--all"}

(* Mutation: the value of -o is left to be read as the remote. *)
ShortOptions_NoValue(p, letters) ==
    [p EXCEPT !.flags = @ \cup (IF "n" \in ToSet(letters) THEN {"--dry-run"} ELSE {})]

(* parseShortPushOptions: what follows an o is its value, or the next word. *)
ShortOptions(p, letters) ==
    LET o == {i \in DOMAIN letters : letters[i] = "o"}
        own == IF o = {} THEN ToSet(letters) ELSE ToSet(SubSeq(letters, 1, Min(o) - 1))
    IN [p EXCEPT
          !.flags = @ \cup (IF "n" \in own THEN {"--dry-run"} ELSE {})
                      \cup (IF "d" \in own THEN {"--delete"} ELSE {}),
          !.ambiguous = @ \/ ~(own \subseteq {"n", "d", "u", "f", "q", "v", "4", "6"}),
          !.await = IF o # {} /\ Min(o) = Len(letters) THEN "value" ELSE "nothing"]

(* parsePushArgs, one word. *)
ReadPushWord(p, w) ==
    CASE p.await = "repo" -> [p EXCEPT !.await = "nothing", !.repo = w]
      [] p.await = "value" -> [p EXCEPT !.await = "nothing"]
      [] p.await = "nothing" /\ (p.stop \/ ~IsOption(w)) -> [p EXCEPT !.words = Append(@, w)]
      [] OTHER ->
           CASE w = "--" -> [p EXCEPT !.stop = TRUE]
             [] w = "--repo" -> [p EXCEPT !.await = "repo"]
             [] w \in DOMAIN RepoIs -> [p EXCEPT !.repo = RepoIs[w]]
             [] w \in PushValueOptions -> [p EXCEPT !.await = "value"]
             [] w \in DOMAIN Flags -> ShortOptions(p, Flags[w])
             [] OTHER -> [p EXCEPT !.flags = @ \cup {w},
                                   !.ambiguous = @ \/ w \notin PushFlags]

ParsePush(args) ==
    FoldLeft(ReadPushWord,
             [words |-> <<>>, flags |-> {}, repo |-> "", await |-> "nothing",
              stop |-> FALSE, ambiguous |-> FALSE], args)

(* isBranchPushRefspec, less what isReceiptRefspec took out before. *)
IsBranchRefspec(w) ==
    IF w \in DOMAIN Refspec
      THEN /\ Refspec[w].src \notin {"", "refs/tags/v1", "abc1234"}
           /\ \/ Refspec[w].src = "HEAD" /\ Refspec[w].dst = "refs/heads/feat"
              \/ Refspec[w].dst = ""
      ELSE w \notin {"tag", "refs/aireceipts/feat"}

(* classifyPush *)
Attaches(argv) ==
    LET sub == SubcommandAt(argv)
        push == ParsePush(SubSeq(argv, sub + 1, Len(argv)))
        remote == CASE push.repo # "" -> push.repo
                    [] push.repo = "" /\ push.words # <<>> -> Head(push.words)
                    [] OTHER -> "origin"
        refspecs == IF push.repo = "" /\ push.words # <<>> THEN Tail(push.words) ELSE push.words
    IN /\ Runs(argv, "push")
       /\ \A i \in (GitAt(argv) + 1)..(sub - 1) :
             argv[i] \notin (GlobalValueOptions \ {"-c"}) \cup {"--git-dir=x"}
       /\ ~push.ambiguous /\ push.await = "nothing"
       /\ push.flags \cap {"--dry-run", "--delete", "--mirror", "--all"} = {}
       /\ remote = "origin"
       /\ \/ refspecs = <<>> /\ push.flags \cap {"--tags", "--prune"} = {}
          \/ Len(refspecs) = 1 /\ IsBranchRefspec(refspecs[1])

(* shouldAttach *)
ShouldAttach(words) ==
    LET invocations == {Strip(argv) : argv \in ToSet(Invocations(words))}
    IN /\ \A i \in DOMAIN words : words[i] # "<<"
       /\ \A argv \in invocations :
             FirstReal(argv) # 0 => argv[FirstReal(argv)] \notin CwdChanging
       /\ \E argv \in invocations : Attaches(argv)

-----------------------------------------------------------------------------
(* What the shell and git do. *)

(* The words that are the value of one of takers. *)
Values(words, takers) ==
    LET value[i \in 1..Len(words)] ==
            /\ i > 1
            /\ ~value[i - 1]
            /\ words[i - 1] \in takers
            /\ \A j \in 1..(i - 2) : words[j] = "--" => value[j]
    IN {i \in DOMAIN words : value[i]}

(* The commands that are run, and whether still in the directory of the    *)
(* hook; a here-document is read and not run.                              *)
RECURSIVE Executed(_, _)
Executed(words, here) ==
    LET docs == {i \in DOMAIN words : words[i] = "<<"}
        ends == {i \in DOMAIN words : words[i] = "newline" /\ \E d \in docs : d < i}
        commands == CommandsOf(IF ends = {} THEN words ELSE SubSeq(words, 1, Min(ends)))
        real(k) == LET argv == Strip(commands[k])
                   IN IF FirstReal(argv) = 0 THEN <<"">>
                      ELSE SubSeq(argv, FirstReal(argv), Len(argv))
        stays(k) == here /\ \A j \in 1..(k - 1) : Head(real(j)) \notin CwdChanging
    IN UNION {LET script == WrappedScript(commands[k])
              IN IF script # <<>> THEN Executed(script, stays(k))
                 ELSE {[argv |-> real(k), here |-> stays(k)]} : k \in DOMAIN commands}

(* git's options before its command. *)
Globals(argv) ==
    LET values == Values(argv, {"-C", "-c", "--git-dir", "--work-tree"})
        commandAt == {i \in 2..Len(argv) : i \notin values /\ ~IsOption(argv[i])}
    IN IF argv = <<>> \/ argv[1] # "git" \/ commandAt = {} THEN 0 ELSE Min(commandAt)

DoesGit(argv, verb) == Globals(argv) # 0 /\ argv[Globals(argv)] = verb

(* git-push(1): `--repo` counts only without a repository argument. *)
UpdatesOrigin(args) ==
    LET takers == {"--repo", "--receive-pack", "--exec", "--push-option",
                   "--recurse-submodules"}
                  \cup {w \in DOMAIN Flags : \E n \in DOMAIN Flags[w] :
                          /\ n = Len(Flags[w]) /\ Flags[w][n] = "o"
                          /\ \A m \in 1..(n - 1) : Flags[w][m] # "o"}
        values == Values(args, takers)
        stops == {i \in DOMAIN args \ values : args[i] = "--"}
        Before(i) == \A s \in stops : i < s
        options == {args[i] : i \in {j \in DOMAIN args \ values : Before(j) /\ IsOption(args[j])}}
        letters == UNION {LET l == Flags[w] IN {l[i] : i \in {j \in DOMAIN l :
                             \A m \in 1..(j - 1) : l[m] # "o"}} : w \in options \cap DOMAIN Flags}
        at == {i \in DOMAIN args \ values :
                 IF Before(i) THEN ~IsOption(args[i]) ELSE i \notin {Min(stops)}}
        arguments == [k \in 1..Cardinality(at) |-> args[SetToSortSeq(at, <)[k]]]
        repos == {RepoIs[w] : w \in options \cap DOMAIN RepoIs}
                 \cup {args[i] : i \in {j \in values : args[j - 1] = "--repo"}}
        refspecs == IF arguments = <<>> THEN <<>> ELSE Tail(arguments)
        updates(w) ==
            IF w \in DOMAIN Refspec
              THEN /\ Refspec[w].src \notin {"", "refs/tags/v1", "abc1234"}
                   /\ Refspec[w].dst # "refs/aireceipts/feat"
              ELSE w \notin {"tag", "refs/aireceipts/feat"}
    IN /\ options \cap {"--dry-run", "--delete", "--bogus"} = {}
       /\ letters \cap {"n", "d"} = {}
       /\ IF arguments # <<>> THEN Head(arguments) = "origin"
          ELSE repos = {} \/ repos = {"origin"}
       /\ IF refspecs = <<>> THEN options \cap {"--tags", "--prune"} = {}
          ELSE \A i \in DOMAIN refspecs : updates(refspecs[i])

(* Left out below, and told in the README: what is counted as a git write  *)
(* knows neither redirections nor here-documents, and `--repo` is followed *)
(* where git prefers a repository argument.                                *)
Plain(words) == ToSet(words) \cap {"<<", ">", ">out"} = {}
NoRepo(words) == ToSet(words) \cap ({"--repo"} \cup DOMAIN RepoIs) = {}

(* gitWrite.ts:1-5, classifyPush's "conservative by design": a line counts *)
(* as a git write, or gets a receipt attached, only if the shell runs that *)
(* git command, and then, in the directory of the hook, a push that        *)
(* updates a branch of origin and deletes nothing.                         *)
ReadLikeTheShell ==
    /\ IsGitWrite(line) /\ Plain(line) =>
          \E c \in Executed(line, TRUE) : DoesGit(c.argv, "push") \/ DoesGit(c.argv, "commit")
    /\ ShouldAttach(line) /\ NoRepo(line) =>
          \E c \in Executed(line, TRUE) :
             /\ c.here /\ DoesGit(c.argv, "push")
             /\ \A i \in 2..(Globals(c.argv) - 1) : c.argv[i] \notin {"-C", "--git-dir=x"}
             /\ UpdatesOrigin(SubSeq(c.argv, Globals(c.argv) + 1, Len(c.argv)))
================================================================================
