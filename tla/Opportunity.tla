----------------------------- MODULE Opportunity -----------------------------
(***************************************************************************)
(* A posting that the owner brings in by hand                              *)
(* (services/opportunity_intake.py): what is read out of the form and the  *)
(* pasted text, before the owner confirms it.  A pasted line has a label   *)
(* or none, and is as long as a title may be or not; a title, like any     *)
(* value, is a sequence of tokens.                                         *)
(***************************************************************************)
EXTENDS Inputs, SequencesExt

CONSTANT Forms      \* [url, title, company, lines, text]: what is entered

Nowhere == "none"
Untitled == <<"untitled", "role">>
Forwarded(url) == [label |-> "none", value |-> <<"forwarded", url>>, fits |-> TRUE]

(* extract_opportunity: an address alone gets a text of its own.           *)
Body(form) ==
    IF form.lines = <<>> /\ form.url # Nowhere THEN <<Forwarded(form.url)>>
    ELSE form.lines

(* parse_job_fields: what was entered, else the first line with the label, *)
(* and for a title else the first line that may be one.                    *)
FirstOf(given, lines, otherwise) ==
    IF given # <<>> THEN given
    ELSE IF lines # <<>> THEN Head(lines).value ELSE otherwise
Labelled(form, label) == SelectSeq(Body(form), LAMBDA l : l.label = label)
Title(form) ==
    FirstOf(form.title, Labelled(form, "title"),
      FirstOf(<<>>, SelectSeq(Body(form), LAMBDA l : l.fits), Untitled))
Employer(form) == FirstOf(form.company, Labelled(form, "company"), <<>>)

(* SOURCE_FROM_URL, _detect_source                                         *)
SourceOf(url) ==
    IF url \in {Nowhere, "other_site"} THEN "ad_hoc" ELSE "linkedin"

(* The fields are shown and may be edited; nothing is confirmed without a  *)
(* description.                                                            *)
Extractable(form) ==
    \/ form.url # Nowhere \/ form.lines # <<>>
    \/ form.title # <<>> \/ form.company # <<>>
Confirmable(form) == Extractable(form) /\ Body(form) # <<>>

(* The payload that confirm_opportunity hands to the gate.                 *)
OpportunityOf(form) ==
    [text |-> form.text, country |-> "none", title |-> Title(form),
     body |-> FlattenSeq([i \in DOMAIN Body(form) |-> Body(form)[i].value]),
     employer |-> Employer(form) # <<>>,
     url |-> IF form.url = Nowhere THEN "ad_hoc" ELSE form.url,
     posted |-> NoTime, received |-> NoTime, fetched |-> NoTime,
     discovered |-> NoTime, source |-> SourceOf(form.url), state |-> "none",
     confirmed |-> TRUE, persisted |-> "none"]
Opportunities ==
    {OpportunityOf(form) : form \in {f \in Forms : Confirmable(f)}}

(* workflow_import_url: nothing is read out of an address.  A job is made  *)
(* of it only with a title and a company; its description is the same for  *)
(* all, so that markers stand in the title or the company.                 *)
ImportOf(form) ==
    [OpportunityOf(form) EXCEPT !.body = <<"forwarded", form.url>>,
                                !.url = form.url,
                                !.source = "user_forwarded_links"]
Imports ==
    {ImportOf(form) : form \in {f \in Forms : f.title # <<>> /\ f.company # <<>>}}
=============================================================================
