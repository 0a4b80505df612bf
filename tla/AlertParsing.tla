----------------------------- MODULE AlertParsing -----------------------------
(***************************************************************************)
(* What becomes of the entries of a job-alert message: its classification  *)
(* (gmail_lifecycle.py), the parsers of the boards' mails                  *)
(* (gmail_alert_parsers.py) and the entries that are ingested.  A mail is  *)
(* a sequence of lines; the window around a URL, a number of characters in *)
(* the code, is a number of lines.                                         *)
(***************************************************************************)
EXTENDS Inputs, FiniteSetsExt, SequencesExt

CONSTANTS
    Radius,         \* lines of a window on either side of a URL
    Mails           \* bound: the mails looked at

ASSUME RadiusAssumption == Radius \in Nat

(* A line states facts of a job or not, and holds a URL or not.  A job id  *)
(* is a sequence of digits; the URL of no job has none.                    *)
NoUrl == [board |-> "none"]
Url(board, job, tracked) ==
    [board |-> board, job |-> job, tracked |-> tracked]
Line(layout, title, company, url) ==
    [layout |-> layout, title |-> title, company |-> company, url |-> url]
Unknown == "unknown"        \* an empty title or company

ASSUME MailsAssumption ==
    \A mail \in Mails :
      /\ mail.text \in Seq(Range(mail.text))
      /\ \A i \in DOMAIN mail.text :
           mail.text[i].url # NoUrl => mail.text[i].url.job \in Seq(Nat)

(* text.find of a URL: one without tracking is part of every URL whose job *)
(* id it begins.                                                           *)
Holds(line, raw) ==
    /\ line.url # NoUrl
    /\ IF raw.tracked THEN line.url = raw
       ELSE line.url.board = raw.board /\ IsPrefix(raw.job, line.url.job)

Around(text, at) ==
    SubSeq(text, Max({1, at - Radius}), Min({Len(text), at + Radius}))

(* Mutant: the window is looked for with the canonical URL, and is at the  *)
(* head of the text when the mail has it with tracking only.               *)
WindowOfCanonical(text, raw) ==
    LET found == {i \in DOMAIN text :
                    text[i].url = [raw EXCEPT !.tracked = FALSE]}
    IN Around(text, IF found = {} THEN 1 ELSE Min(found))

(* _window_around the first occurrence of a URL taken from the text.       *)
Window(text, raw) ==
    Around(text, Min({i \in DOMAIN text : Holds(text[i], raw)}))

(* _extract_title_company: of each layout only the first match counts.     *)
Stated(window, layout) == {i \in DOMAIN window : window[i].layout = layout}
FirstStated(window, layout) == window[Min(Stated(window, layout))]
Usable(window, layout) ==
    Stated(window, layout) # {} /\ FirstStated(window, layout).title # Unknown
Extracted(window) ==
    IF Usable(window, "at") THEN FirstStated(window, "at")
    ELSE IF Usable(window, "stacked") THEN FirstStated(window, "stacked")
    ELSE Line("none", Unknown, Unknown, NoUrl)

Alert(job, title, company, confidence) ==
    [job |-> job, title |-> title, company |-> company,
     confidence |-> confidence]

(* _linkedin_entries, _indeed_entries: one entry for each job, from its    *)
(* first URL; confidences in percent.                                      *)
Digests == [linkedin |-> <<90, 70, 40>>, indeed |-> <<88, 65, 40>>]
EntryOf(board, raw, facts) ==
    Alert(raw.job, facts.title, facts.company,
          Digests[board][IF facts.title = Unknown THEN 3
                         ELSE IF facts.company = Unknown THEN 2 ELSE 1])
UrlsOf(board, text) == {i \in DOMAIN text : text[i].url.board = board}
JobIdsOf(board, text) == {text[i].url.job : i \in UrlsOf(board, text)} \ {<<>>}
FirstUrl(board, text, job) ==
    text[Min({i \in UrlsOf(board, text) : text[i].url.job = job})].url
DigestAlerts(board, text) ==
    {LET raw == FirstUrl(board, text, job)
     IN EntryOf(board, raw, Extracted(Window(text, raw))) :
       job \in JobIdsOf(board, text)}

(* _dice, _glassdoor, _usajobs: one alert for the mail, from the first URL *)
(* of the board, the subject and the first company in the text.            *)
Singles == [dice |-> [confidence |-> 80, word |-> "with"],
            glassdoor |-> [confidence |-> 78, word |-> "at"],
            usajobs |-> [confidence |-> 83, word |-> "agency"]]
SingleAlert(board, text) ==
    LET urls == UrlsOf(board, text)
        employers == Stated(text, Singles[board].word)
    IN IF urls = {} THEN {}
       ELSE {Alert(text[Min(urls)].url.job, Head(text).title,
                   IF employers = {} THEN Unknown ELSE text[Min(employers)].company,
                   Singles[board].confidence)}

(* parse_job_alerts: the label names the board, else sender or subject do. *)
BoardOrder == <<"linkedin", "indeed", "dice", "glassdoor", "usajobs">>
BoardOf(mail) ==
    LET named == SelectSeq(BoardOrder, LAMBDA b : b \in mail.names)
    IN IF mail.label \in ToSet(BoardOrder) THEN mail.label
       ELSE IF named = <<>> THEN "none" ELSE Head(named)
Alerts(mail) ==
    LET board == BoardOf(mail)
    IN IF board = "none" THEN {}
       ELSE IF board \in DOMAIN Digests THEN DigestAlerts(board, mail.text)
       ELSE SingleAlert(board, mail.text)

(* classify_message: the label decides if it is one with a meaning, else   *)
(* the first kind a word of the mail stands for, then its being an alert.  *)
AlertLabels == ToSet(BoardOrder) \union {"other_alerts"}
LabelHints == [Recruiters |-> "RECRUITER_OUTREACH", Interviews |-> "INTERVIEW",
               Applications |-> "APPLICATION_CONFIRMATION",
               Rejections |-> "REJECTION", Offers |-> "OFFER",
               Processing |-> "UNRELATED"]
KindOrder == <<"OFFER", "REJECTION", "INTERVIEW", "ASSESSMENT",
               "APPLICATION_CONFIRMATION", "FOLLOW_UP", "RECRUITER_OUTREACH">>
Classified(mail) ==
    LET kinds == SelectSeq(KindOrder, LAMBDA k : k \in mail.words)
    IN IF mail.label = "foreign_label" THEN "UNRELATED"
       ELSE IF mail.label \in AlertLabels THEN "JOB_ALERT"
       ELSE IF mail.label \in DOMAIN LabelHints THEN LabelHints[mail.label]
       ELSE IF kinds # <<>> THEN Head(kinds)
       ELSE IF Alerts(mail) # {} THEN "JOB_ALERT" ELSE "UNRELATED"

(* process_gmail_message: the entries that are ingested.  A mail without   *)
(* one goes to review; entries of a digest that miss the bar are dropped.  *)
MinConfidence == 72
Ingested(mail) ==
    IF Classified(mail) = "JOB_ALERT"
    THEN {a \in Alerts(mail) : a.confidence >= MinConfidence} ELSE {}
Quarantined(mail) ==
    \/ Classified(mail) = "JOB_ALERT" /\ Ingested(mail) = {}
    \/ Classified(mail) = "UNRELATED" /\ mail.label # "Processing"
-----------------------------------------------------------------------------
AskMail == \E mail \in Mails : Given("mail", mail)
MailSpec == input = NoInput /\ [][AskMail]_input

(* The facts around the first URL of a job speak of no other job, and no   *)
(* URL before it begins like it.                                           *)
Near(text, at) == {i \in DOMAIN text : i <= at + Radius /\ at <= i + Radius}
Alone(text, raw, at, facts) ==
    /\ \A i \in 1..(at - 1) : ~Holds(text[i], raw)
    /\ {text[i] : i \in {n \in Near(text, at) :
                           text[n].layout \in {"at", "stacked"}}} = {facts}

(* In a digest each job is ingested at most once, under a title and        *)
(* employer the mail states; one whose surroundings speak of no other job  *)
(* is ingested under its own title and employer, if they are usable, and   *)
(* else not at all.  A message is an alert with jobs, a message of another *)
(* kind, or up for review (gmail_alert_parsers.py:103-195,                 *)
(* gmail_lifecycle.py:265-318).                                            *)
EntriesKeepTheirFacts ==
    Is("mail") =>
      LET text == Asked.text
          board == BoardOf(Asked)
          First(job) == FirstUrl(board, text, job)
          FirstAt(job) == Min({i \in DOMAIN text : text[i].url = First(job)})
      IN /\ \/ Ingested(Asked) # {}
            \/ Quarantined(Asked)
            \/ Classified(Asked) # "JOB_ALERT"
         /\ board \in DOMAIN Digests /\ Classified(Asked) = "JOB_ALERT" =>
              \A job \in JobIdsOf(board, text) :
                LET taken == {a \in Ingested(Asked) : a.job = job}
                IN /\ Cardinality(taken) <= 1
                   /\ \A a \in taken : \E i \in DOMAIN text :
                        a.title = text[i].title /\ a.company = text[i].company
                   /\ \A facts \in Range(text) :
                        Alone(text, First(job), FirstAt(job), facts) =>
                          IF Unknown \in {facts.title, facts.company}
                          THEN taken = {}
                          ELSE \E a \in taken : /\ a.title = facts.title
                                                /\ a.company = facts.company
=============================================================================
