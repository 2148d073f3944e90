---- MODULE MCSessionMirror ----
EXTENDS SessionMirror
====
