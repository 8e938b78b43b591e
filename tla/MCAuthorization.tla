-------------------------- MODULE MCAuthorization --------------------------
EXTENDS Authorization

\* One role and one group of the default configuration are changed by clients too.
MCRoleDefs == {{May("worker", {"read"})}}
MCGroupDefs == {{"ProjectReader"}}
\* The first two roles and their group, WorkerAdmin and its group, and a role of no group.
MCSetup == <<1, 2, 4, 6, 14, 16>>
RequestSymmetry == Permutations(Requests)

=============================================================================
