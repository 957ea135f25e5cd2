----------------------------- MODULE MCUserList -----------------------------
EXTENDS UserList

MCBodies == ListBodies

MCTables == {{}, {1, 2, 3}}
=============================================================================
