---------------------------- MODULE MCWorkspaces ----------------------------
EXTENDS Workspaces

\* A new window, and one that re-attaches two sessions of one workspace and
\* one of another.
MCStart == {<<1>>, <<2, 1>>}
=============================================================================
