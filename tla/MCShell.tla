------------------------------- MODULE MCShell -------------------------------
EXTENDS Shell

\* rag stands for the views that nothing else happens to.
MCViews == {"chat", "rag", "prompts", "admin", "toollab-run"}
=============================================================================
