------------------------------ MODULE MCTranscripts ------------------------------
EXTENDS Transcripts

CONSTANTS m1, m2, t1, t2

MCCodex == {Usage(1, 1, 0, 0), Usage(0, 1, 1, 0)}
MCInherited == {emptyUsage, Usage(1, 1, 1, 0)}
MCClaude == {Usage(1, 1, 0, 0), Usage(0, 1, 1, 1)}
MCOpenCode == {Usage(1, 1, 0, 0), Usage(0, 2, 1, 1)}
MCGemini == {Usage(1, 1, 1, 0), Usage(2, 1, 0, 0)}
MCCursor == {Usage(1, 0, 0, 0), Usage(1, 1, 0, 0)}
MCRecords ==
    ("codex" :> 4) @@ ("claude-code" :> 3) @@ ("opencode" :> 5) @@ ("gemini" :> 4) @@ ("cursor" :> 4)
================================================================================
