-------------------------- MODULE MCBrowserSession --------------------------
EXTENDS BrowserSession, TLC
=============================================================================
