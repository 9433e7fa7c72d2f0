----------------------------- MODULE MCMigrations -----------------------------
(* Two constructors; the package's migrations, an older release without 0003 *)
(* and a release whose 0002 was edited.                                      *)
EXTENDS Migrations

CONSTANTS a, b

MCReleases == {<<a, a, a>>, <<a, a>>, <<a, b, a>>}
MCScripts == <<<<"ddl", "ddl">>, <<"ddl">>, <<"ddl", "insert">>>>

=============================================================================
