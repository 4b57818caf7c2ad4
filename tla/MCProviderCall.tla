--------------------------- MODULE MCProviderCall --------------------------
EXTENDS ProviderCall
MCCalls == {[provider |-> "command", probe |-> FALSE],
            [provider |-> "claude", probe |-> FALSE],
            [provider |-> "codex", probe |-> TRUE],
            [provider |-> "api", probe |-> TRUE]}
=============================================================================
