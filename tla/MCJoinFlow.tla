------------------------------ MODULE MCJoinFlow ------------------------------
EXTENDS JoinFlow
===============================================================================
