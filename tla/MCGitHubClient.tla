--------------------------- MODULE MCGitHubClient ---------------------------
EXTENDS GitHubClient
=============================================================================
