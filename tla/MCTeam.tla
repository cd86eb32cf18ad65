------------------------------- MODULE MCTeam -------------------------------
EXTENDS Team
=============================================================================
