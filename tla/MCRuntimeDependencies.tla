----------------------- MODULE MCRuntimeDependencies -----------------------
EXTENDS RuntimeDependencies

\* One site, a host it needs as a script and as a font; two requests, for the
\* same of them or for both.
MCInputs == [anchorHost : {"site"}, dependencyHost : {"cdn"}, requestType : {"script", "font"}]
MCInput(type) == [anchorHost |-> "site", dependencyHost |-> "cdn", requestType |-> type]
MCRequests == 1 .. 2
MCPlans == {<<MCInput("script"), MCInput("script")>>, <<MCInput("script"), MCInput("font")>>}

=============================================================================
