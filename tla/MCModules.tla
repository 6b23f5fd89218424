----------------------------- MODULE MCModules ------------------------------
\* A renderer, another module, and a module with the name of a default one.
EXTENDS Modules
MCNames == {"fixture_renderer", "fixture_upgrade", "smooth"}
=============================================================================
