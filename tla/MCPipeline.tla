----------------------------- MODULE MCPipeline -----------------------------
\* Pipeline with a personal address and a role account, replies for the lines
\* of the reply tables, and a sending history that lifts and one that caps.
EXTENDS Pipeline

CONSTANTS mailbox, role

Reply(code, says) == [code |-> code, says |-> says]
History(delivered, bounced) == [delivered |-> delivered, bounced |-> bounced]

MCReplies == {Reply(250, "plain"), Reply(354, "plain"),
              Reply(421, "greylist"), Reply(450, "nonexistent"), Reply(451, "plain"),
              Reply(452, "quota"), Reply(454, "refused"), Reply(454, "timeout"),
              Reply(550, "plain"), Reply(550, "nonexistent"), Reply(550, "disabled"),
              Reply(552, "nonexistent")}

MCHistories == {History(5, 0), History(3, 3)}
=============================================================================
